---- MODULE Spec2Model ----
(***************************************************************************)
(* State-machine model of ndpulsegen's instruction compiler                *)
(* (src/src/ndpulsegen/compiler.py): the Compiler builder (timeline of     *)
(* updates, starting state, sequence duration), the Channel helpers        *)
(* (high, low, pulse_high, pulse_low) and compile().                       *)
(*                                                                         *)
(* Python values are represented as follows.                               *)
(*   dict            a function whose DOMAIN is the set of keys            *)
(*   None / a value  the empty tuple <<>> / the one-element tuple <<v>>    *)
(*   list            a sequence                                            *)
(* Times are integers (clock cycles).  Every call the model makes passes   *)
(* time_unit = 'clock_cycles' and integer arguments, so int(t) is the      *)
(* identity on them; the 'seconds' conversion is modelled by ToCycles and  *)
(* is reached where the code itself omits the time_unit argument.          *)
(***************************************************************************)
EXTENDS Integers, Sequences, FiniteSets, TLC

(***************************************************************************)
(* Bounds of the model.                                                    *)
(***************************************************************************)
MaxTime == 2          \* time arguments of builder calls range over 0..MaxTime
MaxCalls == 2         \* number of builder calls made on one Compiler
MaxPulses == 1        \* number of pulse calls among them
MaxPulseTime == 1     \* start times of pulse calls range over 0..MaxPulseTime
MaxN == 2             \* repetition counts of pulse calls range over 0..MaxN
MaxDuration == 1      \* segment durations of pulse calls range over 0..MaxDuration
MaxSeqDuration == 3   \* sequence durations range over 1..MaxSeqDuration
MaxDeviceCalls == 3   \* number of calls made on one PulseGenerator
MaxBytes == 4         \* number of bytes the device sends
MaxWorkers == 2       \* number of SerialWorkers run one after the other
MaxCommands == 3      \* number of write_command calls
CommandBytes == 2     \* number of bytes of an encoded command

(***************************************************************************)
(* Program constants.                                                      *)
(***************************************************************************)
NumChannels == 24
CyclesPerSecond == 100000000

Channels == 0 .. (NumChannels - 1)
FlagNames == {"stop_and_wait", "hardware_trig_out", "notify_computer", "powerline_sync"}

(***************************************************************************)
(* Python helpers.                                                         *)
(***************************************************************************)
None == << >>
Some(v) == << v >>

EmptyDict == [k \in {} |-> TRUE]
Dict1(k, v) == [x \in {k} |-> v]

\* dict.update(u): keys of u are written, every other key keeps its value
DictUpdate(d, u) ==
  [k \in (DOMAIN d) \cup (DOMAIN u) |-> IF k \in DOMAIN u THEN u[k] ELSE d[k]]

\* dict.get(k, default)
DictGet(d, k, default) == IF k \in DOMAIN d THEN d[k] ELSE default

Min(S) == CHOOSE x \in S : \A y \in S : x <= y
Max(S) == CHOOSE x \in S : \A y \in S : x >= y

\* int(round(t / CLOCK_PERIOD)) for 'seconds', int(t) otherwise (integer t)
ToCycles(t, time_unit) ==
  IF time_unit = "seconds" THEN t * CyclesPerSecond ELSE t

NewEvent == [states |-> EmptyDict, goto |-> EmptyDict, flags |-> EmptyDict]

GotoDict(t_to, counter) ==
  [k \in {"t_to", "counter"} |-> IF k = "t_to" THEN t_to ELSE counter]

\* flags = {key: value for key, value in flags_update.items() if value is not None}
FlagsNotNone(flags_update) ==
  [k \in {f \in FlagNames : flags_update[f] # None} |-> flags_update[k][1]]

NoFlags == [f \in FlagNames |-> None]

VARIABLES
  updates,            \* Compiler.updates: time -> [states, goto, flags]
  starting_state,     \* Compiler.starting_state: channel -> BOOLEAN
  instructions,       \* Compiler.instructions: list of encoded instruction arguments
  channels,           \* Compiler.channels: channel number -> cached Channel object
  sequence_duration,  \* Compiler.sequence_duration: None or cycles
  final_address,      \* Compiler.final_address: None or an address
  sorted_updates,     \* the event list the last compile() walked (its local variable)
  last_call,          \* the last call made on the builder: name, arguments, outcome
  gotos,              \* t_from -> arguments of the last add_goto(t_from, ...) call
  ncalls,             \* number of builder calls made so far
  npulses,            \* number of pulse calls made so far
  held,               \* the Program the caller keeps: its content, and whether
                      \* it is the list object self.instructions is bound to
  ser_is_open,        \* PulseGenerator.ser.is_open
  ser_port,           \* PulseGenerator.ser.port
  worker,             \* PulseGenerator._worker / _thread: the reader it refers to
  readers,            \* reader threads still inside SerialWorker.run: id -> _running
  nreaders,           \* number of readers started so far
  signals,            \* signals PulseGenerator has emitted, in order
  wire,               \* commands written to the port, in order
  serial_number_save, \* PulseGenerator.serial_number_save
  ndevcalls,          \* number of Device Channel calls made so far
  run_pc,             \* where the SerialWorker is in run
  running,            \* SerialWorker._running
  cancel_pending,     \* ser.cancel_read() was called and no read has returned on it
  inbuf,              \* bytes received on the port and not read yet
  msg_id,             \* run's msg_id while the payload of its frame is to be read
  worker_signals,     \* signals the SerialWorkers have emitted, in order
  nsent,              \* number of bytes the device has sent
  nworkers,           \* number of SerialWorkers created so far
  wpc,                \* where each caller of write_command is in it
  write_lock,         \* PulseGenerator._write_lock: the caller holding it
  wsent,              \* bytes of its command each caller has written
  wcommand,           \* the number of the command each caller writes
  ncommands,          \* number of write_command calls made so far
  uploading,          \* the upload_instructions call in progress: its commands
                      \* and how many of them it has written
  codec_x,            \* the messages given to the encoder
  codec_frame,        \* the bytes the encoder returned
  codec_out           \* the messages the decoder returned

\* the state of the Compiler and of its caller
builder_vars == << updates, starting_state, instructions, channels, sequence_duration,
                   final_address, sorted_updates, gotos, ncalls, npulses, held >>

\* the state of the PulseGenerator and of what it is connected to
device_vars == << ser_is_open, ser_port, worker, readers, nreaders, signals, wire,
                  serial_number_save, ndevcalls >>

\* the state of the SerialWorker and of the stream it reads
reader_vars == << run_pc, running, cancel_pending, inbuf, msg_id, worker_signals,
                  nsent, nworkers >>

\* the threads that call write_command
Writers == {"w1", "w2"}

\* the state of the callers of write_command
writer_vars == << wpc, write_lock, wsent, wcommand, ncommands, uploading >>

\* the arguments and results of the Wire Codec's calls
codec_vars == << codec_x, codec_frame, codec_out >>

vars == << updates, starting_state, instructions, channels, sequence_duration,
           final_address, sorted_updates, last_call, gotos, ncalls, npulses,
           held, device_vars, reader_vars, writer_vars, codec_vars >>

Call(op, args, ret, raised) ==
  [op |-> op, args |-> args, ret |-> ret, raised |-> raised]

(***************************************************************************)
(* Compiler.add_update                                                     *)
(***************************************************************************)
\* an add_update that replaces the event's overrides by state_dict
AddUpdate_StatesReplaced(u, t_arg, state_dict, flags_update, time_unit) ==
  LET t == ToCycles(t_arg, time_unit)
      u1 == IF t \in DOMAIN u THEN u ELSE DictUpdate(u, Dict1(t, NewEvent))
      u2 == IF state_dict # EmptyDict
              THEN [u1 EXCEPT ![t].states = state_dict]
              ELSE u1
      flags == FlagsNotNone(flags_update)
  IN  IF flags # EmptyDict
        THEN [u2 EXCEPT ![t].flags = DictUpdate(@, flags)]
        ELSE u2

AddUpdate(u, t_arg, state_dict, flags_update, time_unit) ==
  LET t == ToCycles(t_arg, time_unit)
      u1 == IF t \in DOMAIN u THEN u ELSE DictUpdate(u, Dict1(t, NewEvent))
      u2 == IF state_dict # EmptyDict
              THEN [u1 EXCEPT ![t].states = DictUpdate(@, state_dict)]
              ELSE u1
      flags == FlagsNotNone(flags_update)
  IN  IF flags # EmptyDict
        THEN [u2 EXCEPT ![t].flags = DictUpdate(@, flags)]
        ELSE u2

(***************************************************************************)
(* Compiler.add_goto                                                       *)
(***************************************************************************)
\* an add_goto that does not make sure of an event at t_to
AddGoto_NoPlaceholder(u, t_from_arg, t_to_arg, goto_counter, time_unit) ==
  LET t_from == ToCycles(t_from_arg, time_unit)
      t_to == ToCycles(t_to_arg, time_unit)
      g == GotoDict(t_to, goto_counter)
  IN  IF (t_from - 1) \notin DOMAIN u
        THEN DictUpdate(u, Dict1(t_from - 1,
               [states |-> EmptyDict, goto |-> g, flags |-> EmptyDict]))
        ELSE [u EXCEPT ![t_from - 1].goto = DictUpdate(@, g)]

\* an add_goto that puts an empty event at t_to whether or not one exists
AddGoto_ResetsTarget(u, t_from_arg, t_to_arg, goto_counter, time_unit) ==
  LET t_from == ToCycles(t_from_arg, time_unit)
      t_to == ToCycles(t_to_arg, time_unit)
      g == GotoDict(t_to, goto_counter)
      u1 == IF (t_from - 1) \notin DOMAIN u
              THEN DictUpdate(u, Dict1(t_from - 1,
                     [states |-> EmptyDict, goto |-> g, flags |-> EmptyDict]))
              ELSE [u EXCEPT ![t_from - 1].goto = DictUpdate(@, g)]
  IN  IF t_to # t_from - 1 THEN DictUpdate(u1, Dict1(t_to, NewEvent)) ELSE u1

AddGoto(u, t_from_arg, t_to_arg, goto_counter, time_unit) ==
  LET t_from == ToCycles(t_from_arg, time_unit)
      t_to == ToCycles(t_to_arg, time_unit)
      g == GotoDict(t_to, goto_counter)
      u1 == IF (t_from - 1) \notin DOMAIN u
              THEN DictUpdate(u, Dict1(t_from - 1,
                     [states |-> EmptyDict, goto |-> g, flags |-> EmptyDict]))
              ELSE [u EXCEPT ![t_from - 1].goto = DictUpdate(@, g)]
  IN  IF t_to \notin DOMAIN u1 THEN DictUpdate(u1, Dict1(t_to, NewEvent)) ELSE u1

(***************************************************************************)
(* Channel._pulse                                                          *)
(***************************************************************************)
\* one repetition: the add_update of the first segment, then of the second
PulseRep(u, ch, pulse_start, d1, level1, level2, flags1, unit1, flags2) ==
  AddUpdate(AddUpdate(u, pulse_start, Dict1(ch, level1), flags1, unit1),
            pulse_start + d1, Dict1(ch, level2), flags2, "clock_cycles")

\* for i in range(n): one repetition, pulse_start += d1 + d2
RECURSIVE PulseLoop(_, _, _, _, _, _, _, _, _)
PulseLoop(u, ch, pulse_start, d1, d2, level1, level2, n, flags1) ==
  IF n <= 0 THEN u
  ELSE PulseLoop(PulseRep(u, ch, pulse_start, d1, level1, level2,
                          flags1, "clock_cycles", NoFlags),
                 ch, pulse_start + (d1 + d2), d1, d2, level1, level2, n - 1, flags1)

\* the scheduling branch of 'end': the add_update of the last first segment
\* is called without time_unit, so it takes add_update's default 'seconds'
PulseEnd(u, ch, t, d1, d2, level1, level2, N, flags) ==
  LET pulse_start == t + (N - 1) * (d1 + d2)
  IN  PulseRep(PulseLoop(u, ch, t, d1, d2, level1, level2, N - 1, NoFlags),
               ch, pulse_start, d1, level1, level2, NoFlags, "seconds", flags)

\* a 'start' branch that hands the flags to the first segment of every repetition
PulseStart_FlagsEvery(u, ch, t, d1, d2, level1, level2, N, flags) ==
  PulseLoop(u, ch, t, d1, d2, level1, level2, N, flags)

PulseStart(u, ch, t, d1, d2, level1, level2, N, flags) ==
  PulseLoop(PulseRep(u, ch, t, d1, level1, level2, flags, "clock_cycles", NoFlags),
            ch, t + (d1 + d2), d1, d2, level1, level2, N - 1, NoFlags)

PulseEvery(u, ch, t, d1, d2, level1, level2, N, flags) ==
  PulseLoop(u, ch, t, d1, d2, level1, level2, N, flags)

\* a check that lets a repeating pulse with a zero-length second segment through
IdleTooShort_OnlyNegative(N, d2) == N > 1 /\ d2 < 0

\* if N > 1 and duration_second_segment <= 0: raise ValueError
IdleTooShort(N, d2) == N > 1 /\ d2 <= 0

\* a _pulse that validates its arguments only after the first repetition has
\* been scheduled
Pulse_ValidatedAfterFirstRep(u, ch, first_segment_high, t_arg, d1_arg, d2_arg, N, flags_mode, flags, time_unit) ==
  LET t == ToCycles(t_arg, time_unit)
      d1 == ToCycles(d1_arg, time_unit)
      d2 == ToCycles(d2_arg, time_unit)
      level1 == first_segment_high
      level2 == ~first_segment_high
      total == IF N = 1 THEN d1 ELSE (N - 1) * (d1 + d2) + d1
      first == PulseRep(u, ch, t, d1, level1, level2, NoFlags, "clock_cycles", NoFlags)
  IN  IF N < 1 THEN [updates |-> u, ret |-> Some(0), raised |-> ""]
      ELSE IF IdleTooShort(N, d2)
        THEN [updates |-> first, ret |-> None, raised |-> "ValueError"]
      ELSE IF flags_mode = "start"
        THEN [updates |-> PulseStart(u, ch, t, d1, d2, level1, level2, N, flags),
              ret |-> Some(total), raised |-> ""]
      ELSE IF flags_mode = "every"
        THEN [updates |-> PulseEvery(u, ch, t, d1, d2, level1, level2, N, flags),
              ret |-> Some(total), raised |-> ""]
      ELSE IF flags_mode = "end"
        THEN [updates |-> PulseEnd(u, ch, t, d1, d2, level1, level2, N, flags),
              ret |-> Some(total), raised |-> ""]
      ELSE [updates |-> first, ret |-> None, raised |-> "ValueError"]

\* result of _pulse: the new timeline, the value returned, the error raised
Pulse(u, ch, first_segment_high, t_arg, d1_arg, d2_arg, N, flags_mode, flags, time_unit) ==
  LET t == ToCycles(t_arg, time_unit)
      d1 == ToCycles(d1_arg, time_unit)
      d2 == ToCycles(d2_arg, time_unit)
      level1 == first_segment_high
      level2 == ~first_segment_high
      total == IF N = 1 THEN d1 ELSE (N - 1) * (d1 + d2) + d1
  IN  IF N < 1 THEN [updates |-> u, ret |-> Some(0), raised |-> ""]
      ELSE IF IdleTooShort(N, d2) THEN [updates |-> u, ret |-> None, raised |-> "ValueError"]
      ELSE IF flags_mode = "start"
        THEN [updates |-> PulseStart(u, ch, t, d1, d2, level1, level2, N, flags),
              ret |-> Some(total), raised |-> ""]
      ELSE IF flags_mode = "every"
        THEN [updates |-> PulseEvery(u, ch, t, d1, d2, level1, level2, N, flags),
              ret |-> Some(total), raised |-> ""]
      ELSE IF flags_mode = "end"
        THEN [updates |-> PulseEnd(u, ch, t, d1, d2, level1, level2, N, flags),
              ret |-> Some(total), raised |-> ""]
      ELSE [updates |-> u, ret |-> None, raised |-> "ValueError"]

(***************************************************************************)
(* Compiler.compile                                                        *)
(***************************************************************************)
\* sorted(self.updates.items()): <<time, event>> pairs in ascending time
RECURSIVE SortedItems(_)
SortedItems(u) ==
  IF DOMAIN u = {} THEN << >>
  ELSE LET m == Min(DOMAIN u)
       IN  << <<m, u[m]>> >> \o SortedItems([k \in (DOMAIN u) \ {m} |-> u[k]])

\* a compile() that leaves the synthetic time-0 event out
InsertTimeZero_Skipped(su, start) == su

\* "Ensure an update exists at time 0"
InsertTimeZero(su, start) ==
  IF su[1][1] # 0
    THEN << <<0, [states |-> start, goto |-> EmptyDict, flags |-> EmptyDict]>> >> \o su
    ELSE su

\* a compile() that takes the sequence duration itself as the trailing pad
FinalUpdateDuration_NotSubtracted(seq_duration, final_update_time) ==
  IF seq_duration = None THEN 1 ELSE seq_duration[1]

\* "Calculate duration for the final update"
FinalUpdateDuration(seq_duration, final_update_time) ==
  IF seq_duration = None THEN 1 ELSE seq_duration[1] - final_update_time

\* an assertion that also lets a trailing pad of 0 through
PadAccepted_Zero(final_update_duration) == final_update_duration >= 0

\* assert final_update_duration >= 1
PadAccepted(final_update_duration) == final_update_duration >= 1

\* "Append a dummy update to determine the duration of the last segment"
AppendDummy(su, final_update_time, final_update_duration) ==
  Append(su, <<final_update_time + final_update_duration, NewEvent>>)

\* a lookup whose addresses are counted from 1 instead of 0
TimeToAddressLookup_FromOne(su) ==
  [t \in {su[i][1] : i \in DOMAIN su} |->
     Max({i : i \in {j \in DOMAIN su : su[j][1] = t}})]

\* {time: idx for idx, (time, _) in enumerate(sorted_updates)}: a later index
\* overwrites an earlier one with the same time
TimeToAddressLookup(su) ==
  [t \in {su[i][1] : i \in DOMAIN su} |->
     Max({i - 1 : i \in {j \in DOMAIN su : su[j][1] = t}})]

\* a running state that starts from all-low instead of starting_state
RECURSIVE CurrentState_AllLow(_, _, _)
CurrentState_AllLow(su, start, n) ==
  IF n = 0 THEN [i \in Channels |-> FALSE]
  ELSE DictUpdate(CurrentState_AllLow(su, start, n - 1), su[n][2].states)

\* current_state after the updates of the events at list positions 1..n
RECURSIVE CurrentState(_, _, _)
CurrentState(su, start, n) ==
  IF n = 0 THEN start
  ELSE DictUpdate(CurrentState(su, start, n - 1), su[n][2].states)

\* the arguments of encode_instruction for the pair (su[address+1], su[address+2])
Instruction(su, start, lookup, address) ==
  LET current_update == su[address + 1]
      next_update == su[address + 2]
      current_state == CurrentState(su, start, address + 1)
      t_to == DictGet(current_update[2].goto, "t_to", 0)
  IN  [address |-> address,
       duration |-> next_update[1] - current_update[1],
       state |-> [i \in Channels |-> current_state[i]],
       goto_address |-> lookup[t_to],
       goto_counter |-> DictGet(current_update[2].goto, "counter", 0),
       flags |-> current_update[2].flags]

\* a compile() without the early return: sorted_updates[0] of an empty list
EmptyProgram_NoReturn(old_final_address) ==
  [instructions |-> << >>, final_address |-> old_final_address,
   sorted_updates |-> << >>, ret |-> None, raised |-> "IndexError"]

\* self.instructions = []; if not self.updates: return
EmptyProgram(old_final_address) ==
  [instructions |-> << >>, final_address |-> old_final_address,
   sorted_updates |-> << >>, ret |-> None, raised |-> ""]

\* the outcome of compile(): the new instructions and final_address, the
\* list walked, the value returned (1 stands for the instruction list) and
\* the error raised
Compile(u, start, seq_duration, old_final_address) ==
  IF DOMAIN u = {}
    THEN EmptyProgram(old_final_address)
  ELSE
    LET su0 == InsertTimeZero(SortedItems(u), start)
        final_update_time == su0[Len(su0)][1]
        final_update_duration == FinalUpdateDuration(seq_duration, final_update_time)
    IN  IF seq_duration # None /\ ~PadAccepted(final_update_duration)
          THEN [instructions |-> << >>, final_address |-> old_final_address,
                sorted_updates |-> su0, ret |-> None, raised |-> "AssertionError"]
        ELSE
          LET su == AppendDummy(su0, final_update_time, final_update_duration)
              lookup == TimeToAddressLookup(su)
              \* addresses whose goto target time has no address (KeyError)
              missing == {a \in 0 .. (Len(su) - 2) :
                            DictGet(su[a + 1][2].goto, "t_to", 0) \notin DOMAIN lookup}
              n == IF missing = {} THEN Len(su) - 1 ELSE Min(missing)
              emitted == [a \in 1 .. n |-> Instruction(su, start, lookup, a - 1)]
          IN  IF missing # {}
                THEN [instructions |-> emitted, final_address |-> old_final_address,
                      sorted_updates |-> su, ret |-> None, raised |-> "KeyError"]
                ELSE [instructions |-> emitted, final_address |-> Some(Len(emitted) - 1),
                      sorted_updates |-> su, ret |-> Some(1), raised |-> ""]

(***************************************************************************)
(* Arguments the calls are made with.                                      *)
(***************************************************************************)
Times == 0 .. MaxTime
HandleChannels == {9}
TwoChannels == {0, 9}
Notify == [NoFlags EXCEPT !["notify_computer"] = Some(TRUE)]
NotifyOff == [NoFlags EXCEPT !["notify_computer"] = Some(FALSE)]
UpdateArgs ==
  {<<EmptyDict, NoFlags>>, <<Dict1(0, TRUE), NoFlags>>, <<Dict1(9, FALSE), NoFlags>>,
   <<EmptyDict, Notify>>, <<Dict1(0, FALSE), NotifyOff>>}

UpdateCall(t, state_dict, flags) == [t |-> t, state_dict |-> state_dict, flags |-> flags]
StartDicts == {Dict1(0, TRUE)}
GotoCounters == {3}
FlagsModes == {"start", "every", "end", "evey"}

PulseCall(ch, first_segment_high, t, d1, d2, N, flags_mode, flags) ==
  [ch |-> ch, first_segment_high |-> first_segment_high, t |-> t, d1 |-> d1,
   d2 |-> d2, N |-> N, flags_mode |-> flags_mode, flags |-> flags]

\* every pulse call within the bounds
PulseArgs ==
  {PulseCall(ch, h, t, d1, d2, N, m, f) :
     ch \in HandleChannels, h \in BOOLEAN, t \in 0 .. MaxPulseTime,
     d1 \in 0 .. MaxDuration, d2 \in 0 .. MaxDuration, N \in 0 .. MaxN,
     m \in FlagsModes, f \in {NoFlags, Notify}}

\* the updates added by a Compiler that goes on to upload
FewUpdateArgs == {<<Dict1(0, TRUE), NoFlags>>, <<Dict1(9, FALSE), NoFlags>>}

\* the pulse calls made next to the other builder calls
FewPulseArgs ==
  {a \in PulseArgs : /\ a.N = Min({MaxN, 2}) /\ a.d1 = 1 /\ a.d2 = 1
                     /\ a.flags = NoFlags /\ a.first_segment_high
                     /\ a.flags_mode \in {"start", "end"}}

\* an add_update or add_goto call with its arguments, in clock cycles
BuilderEdit(op, t, t_to, goto_counter, state_dict, flags) ==
  [op |-> op, t |-> t, t_to |-> t_to, goto_counter |-> goto_counter,
   state_dict |-> state_dict, flags |-> flags]

BuilderEdits ==
  {BuilderEdit("add_update", t, 0, 0, a[1], a[2]) : t \in Times, a \in UpdateArgs}
  \cup {BuilderEdit("add_goto", t_from, t_to, c, EmptyDict, NoFlags) :
          t_from \in Times, t_to \in Times, c \in GotoCounters}

\* the timeline after the call
ApplyEdit(u, e) ==
  IF e.op = "add_update"
    THEN AddUpdate(u, e.t, e.state_dict, e.flags, "clock_cycles")
    ELSE AddGoto(u, e.t, e.t_to, e.goto_counter, "clock_cycles")

\* the time of the event whose states, flags or goto the call writes
EditedTime(e) == IF e.op = "add_update" THEN e.t ELSE e.t - 1

(***************************************************************************)
(* The state after Compiler.__init__                                       *)
(***************************************************************************)
Init ==
  /\ updates = EmptyDict
  /\ starting_state = [i \in Channels |-> FALSE]
  /\ instructions = << >>
  /\ channels = EmptyDict
  /\ sequence_duration = None
  /\ final_address = None
  /\ sorted_updates = << >>
  /\ last_call = Call("__init__", << >>, None, "")
  /\ gotos = EmptyDict
  /\ ncalls = 0
  /\ npulses = 0
  /\ held = None
  /\ ser_is_open = FALSE
  /\ ser_port = None
  /\ worker = None
  /\ readers = EmptyDict
  /\ nreaders = 0
  /\ signals = << >>
  /\ wire = << >>
  /\ serial_number_save = None
  /\ ndevcalls = 0
  /\ run_pc = "while"
  /\ running = TRUE
  /\ cancel_pending = FALSE
  /\ inbuf = << >>
  /\ msg_id = None
  /\ worker_signals = << >>
  /\ nsent = 0
  /\ nworkers = 1
  /\ wpc = [w \in Writers |-> "idle"]
  /\ write_lock = None
  /\ wsent = [w \in Writers |-> 0]
  /\ wcommand = [w \in Writers |-> 0]
  /\ ncommands = 0
  /\ uploading = None
  /\ codec_x = << >>
  /\ codec_frame = None
  /\ codec_out = None

(***************************************************************************)
(* The calls.                                                              *)
(***************************************************************************)
set_starting_state ==
  /\ ncalls < MaxCalls
  /\ \E state_dict \in StartDicts :
       starting_state' = DictUpdate(starting_state, state_dict)
  /\ last_call' = Call("set_starting_state", << >>, None, "")
  /\ ncalls' = ncalls + 1
  /\ UNCHANGED << codec_vars, writer_vars, reader_vars, device_vars, held, updates, instructions, channels, sequence_duration,
                  final_address, sorted_updates, gotos, npulses >>

set_sequence_duration ==
  /\ ncalls < MaxCalls
  /\ \E d \in 1 .. MaxSeqDuration :
       sequence_duration' = Some(ToCycles(d, "clock_cycles"))
  /\ last_call' = Call("set_sequence_duration", << >>, None, "")
  /\ ncalls' = ncalls + 1
  /\ UNCHANGED << codec_vars, writer_vars, reader_vars, device_vars, held, updates, starting_state, instructions, channels,
                  final_address, sorted_updates, gotos, npulses >>

add_update(Ts, Args) ==
  /\ ncalls < MaxCalls
  /\ \E t \in Ts, a \in Args :
       /\ updates' = AddUpdate(updates, t, a[1], a[2], "clock_cycles")
       /\ last_call' = Call("add_update", UpdateCall(t, a[1], a[2]), None, "")
  /\ ncalls' = ncalls + 1
  /\ UNCHANGED << codec_vars, writer_vars, reader_vars, device_vars, held, starting_state, instructions, channels, sequence_duration,
                  final_address, sorted_updates, gotos, npulses >>

add_goto ==
  /\ ncalls < MaxCalls
  /\ \E t_from \in Times, t_to \in Times, goto_counter \in GotoCounters :
       /\ updates' = AddGoto(updates, t_from, t_to, goto_counter, "clock_cycles")
       /\ gotos' = DictUpdate(gotos, Dict1(t_from, <<t_to, goto_counter>>))
       /\ last_call' = Call("add_goto",
                            [t_from |-> t_from, t_to |-> t_to, goto_counter |-> goto_counter],
                            None, "")
  /\ ncalls' = ncalls + 1
  /\ UNCHANGED << codec_vars, writer_vars, reader_vars, device_vars, held, starting_state, instructions, channels, sequence_duration,
                  final_address, sorted_updates, npulses >>

\* a Channel object is named by the number of Channel objects constructed
NewChannel(chs) == IF DOMAIN chs = {} THEN 1 ELSE Max({chs[n] : n \in DOMAIN chs}) + 1

\* a channel() that constructs a Channel on every call
ChannelsAfter_AlwaysNew(chs, channel_number) ==
  DictUpdate(chs, Dict1(channel_number, NewChannel(chs)))

\* if channel_number not in self.channels: self.channels[channel_number] = Channel(...)
ChannelsAfter(chs, channel_number) ==
  IF channel_number \notin DOMAIN chs
    THEN DictUpdate(chs, Dict1(channel_number, NewChannel(chs)))
    ELSE chs

\* Compiler.channel, called with a channel number of Numbers
channel(Numbers) ==
  /\ \E channel_number \in Numbers, start \in {None, Some(TRUE), Some(FALSE)} :
       /\ channels' = ChannelsAfter(channels, channel_number)
       /\ starting_state' = IF start # None
                              THEN [starting_state EXCEPT ![channel_number] = start[1]]
                              ELSE starting_state
       /\ last_call' = Call("channel",
                            [channel_number |-> channel_number, starting_state |-> start],
                            Some(channels'[channel_number]), "")
  /\ UNCHANGED << codec_vars, writer_vars, reader_vars, device_vars, held, updates, instructions, sequence_duration, final_address,
                  sorted_updates, gotos, ncalls, npulses >>

\* Channel.high and Channel.low
high_low ==
  /\ ncalls < MaxCalls
  /\ \E ch \in DOMAIN channels, level \in BOOLEAN, t \in Times :
       /\ updates' = AddUpdate(updates, t, Dict1(ch, level), NoFlags, "clock_cycles")
       /\ last_call' = Call(IF level THEN "high" ELSE "low",
                            UpdateCall(t, Dict1(ch, level), NoFlags), None, "")
  /\ ncalls' = ncalls + 1
  /\ UNCHANGED << codec_vars, writer_vars, reader_vars, device_vars, held, starting_state, instructions, channels, sequence_duration,
                  final_address, sorted_updates, gotos, npulses >>

\* Channel.pulse_high and Channel.pulse_low, called with one of Args
pulse(Args) ==
  /\ ncalls < MaxCalls
  /\ npulses < MaxPulses
  /\ \E a \in Args :
       /\ a.ch \in DOMAIN channels
       /\ LET r == Pulse(updates, a.ch, a.first_segment_high, a.t, a.d1, a.d2, a.N,
                         a.flags_mode, a.flags, "clock_cycles")
          IN  /\ updates' = r.updates
              /\ last_call' = Call("pulse", a, r.ret, r.raised)
  /\ ncalls' = ncalls + 1
  /\ npulses' = npulses + 1
  /\ UNCHANGED << codec_vars, writer_vars, reader_vars, device_vars, held, starting_state, instructions, channels, sequence_duration,
                  final_address, sorted_updates, gotos >>

\* a compile() that empties the list self.instructions is bound to and fills
\* it again
HeldAfterCompile_ClearedInPlace(h, new_instructions) ==
  IF h # None /\ h[1].same
    THEN Some([content |-> new_instructions, same |-> TRUE])
    ELSE h

\* self.instructions = [] binds the attribute to a new list: a list handed out
\* before is no longer the one compile() appends to
HeldAfterCompile(h, new_instructions) ==
  IF h = None THEN None ELSE Some([content |-> h[1].content, same |-> FALSE])

\* Compiler.compile; the caller keeps the returned list when keep is chosen
\* from Keeps and it holds none yet.  sorted() and starting_state.copy() give
\* compile() its own list and running state, so the configuration is only read.
compile(Keeps) ==
  LET r == Compile(updates, starting_state, sequence_duration, final_address)
  IN  /\ instructions' = r.instructions
      /\ final_address' = r.final_address
      /\ sorted_updates' = r.sorted_updates
      /\ last_call' = Call("compile", << >>, r.ret, r.raised)
      /\ \E keep \in Keeps :
           held' = IF keep /\ held = None /\ r.ret # None
                     THEN Some([content |-> r.instructions, same |-> TRUE])
                     ELSE HeldAfterCompile(held, r.instructions)
      /\ UNCHANGED << codec_vars, writer_vars, reader_vars, device_vars, updates, starting_state, channels, sequence_duration,
                      gotos, ncalls, npulses >>

\* Compiler.get_instructions: the caller keeps the list it returns
get_instructions ==
  /\ held = None
  /\ held' = Some([content |-> instructions, same |-> TRUE])
  /\ last_call' = Call("get_instructions", << >>, Some(1), "")
  /\ UNCHANGED << codec_vars, writer_vars, reader_vars, device_vars, updates, starting_state, instructions, channels, sequence_duration,
                  final_address, sorted_updates, gotos, ncalls, npulses >>

(***************************************************************************)
(* The Device Channel: PulseGenerator of gui.py.                           *)
(***************************************************************************)
ValidVid == 1027
ValidPid == 24592
CheckByte == 209

\* serial.tools.list_ports.comports(): two ports of the device's USB chip,
\* with the serial number of the device behind each, and one foreign port
Comports ==
  << [device |-> "COM1", vid |-> ValidVid, pid |-> ValidPid, serial_number |-> 7],
     [device |-> "COM2", vid |-> ValidVid, pid |-> ValidPid, serial_number |-> 8],
     [device |-> "COM3", vid |-> ValidVid, pid |-> 1, serial_number |-> 9] >>

IsValidPort(cp) == cp.vid = ValidVid /\ cp.pid = ValidPid
ValidPorts == SelectSeq(Comports, IsValidPort)
ValidDevices == {ValidPorts[i].device : i \in 1 .. Len(ValidPorts)}

\* what can happen while one port is probed
ProbeOutcomes ==
  {[event |-> e, echoed_byte |-> 0] :
     e \in {"open_fails", "write_raises", "read_raises", "decode_raises", "no_reply"}}
  \cup {[event |-> "echo", echoed_byte |-> b] : b \in {CheckByte, 17}}

\* PulseGenerator._try_handshake: only s.open() is inside a try/except; the
\* probe itself runs under try/finally, which closes the port and lets the
\* exception pass
TryHandshake(cp, outcome) ==
  CASE outcome.event = "open_fails" -> [ok |-> FALSE, meta |-> None, raised |-> ""]
    [] outcome.event = "write_raises" ->
         [ok |-> FALSE, meta |-> None, raised |-> "SerialTimeoutException"]
    [] outcome.event = "read_raises" ->
         [ok |-> FALSE, meta |-> None, raised |-> "SerialException"]
    [] outcome.event = "decode_raises" ->
         [ok |-> FALSE, meta |-> None, raised |-> "Exception"]
    [] outcome.event = "no_reply" -> [ok |-> FALSE, meta |-> None, raised |-> ""]
    [] outcome.event = "echo" ->
         IF outcome.echoed_byte = CheckByte
           THEN [ok |-> TRUE, meta |-> Some([serial_number |-> cp.serial_number]),
                 raised |-> ""]
           ELSE [ok |-> FALSE, meta |-> None, raised |-> ""]

NoDevices == [validated_devices |-> << >>, unvalidated_devices |-> << >>, raised |-> ""]

\* the loop of get_connected_devices over valid_ports, from the i-th port on
RECURSIVE ProbePorts(_, _, _, _)
ProbePorts(ports, outcomes, i, found) ==
  IF i > Len(ports) THEN found
  ELSE LET cp == ports[i]
           h == TryHandshake(cp, outcomes[cp.device])
       IN  IF h.raised # ""
             THEN [found EXCEPT !.raised = h.raised]
           ELSE IF h.ok /\ h.meta # None
             THEN ProbePorts(ports, outcomes, i + 1,
                    [found EXCEPT !.validated_devices =
                       Append(@, [serial_number |-> h.meta[1].serial_number,
                                  comport |-> cp.device])])
           ELSE ProbePorts(ports, outcomes, i + 1,
                    [found EXCEPT !.unvalidated_devices = Append(@, cp.device)])

\* PulseGenerator.get_connected_devices
GetConnectedDevices(outcomes) == ProbePorts(ValidPorts, outcomes, 1, NoDevices)

\* the device connect() takes from the validated devices: the first one with
\* the serial number asked for, or the first one when nothing was asked for
RECURSIVE FirstMatch(_, _, _, _)
FirstMatch(devices, serial_number, port, i) ==
  IF i > Len(devices) THEN None
  ELSE IF \/ (serial_number # None /\ devices[i].serial_number = serial_number[1])
          \/ (serial_number = None /\ port = None)
    THEN Some(devices[i])
  ELSE FirstMatch(devices, serial_number, port, i + 1)

SerialArgs == {None, Some(7), Some(5)}
PortArgs == {None, Some("COM1"), Some("COM3")}
Outcomes == [ValidDevices -> ProbeOutcomes]
NoReplies == [d \in ValidDevices |-> [event |-> "no_reply", echoed_byte |-> 0]]

\* PulseGenerator.is_open
is_open == ser_is_open

\* PulseGenerator._start_reader: a new thread and worker replace the
\* references held, and connected is emitted
StartReader ==
  /\ nreaders' = nreaders + 1
  /\ readers' = DictUpdate(readers, Dict1(nreaders + 1, TRUE))
  /\ worker' = Some(nreaders + 1)
  /\ signals' = Append(signals, "connected")

\* PulseGenerator.connect called with a serial number of SerialNumbers and a
\* port of PortNames; opens tells whether ser.open() succeeds, and outcomes
\* what happens to the probes when the call runs the discovery
connect(SerialNumbers, PortNames) ==
  /\ ndevcalls < MaxDeviceCalls
  /\ ndevcalls' = ndevcalls + 1
  /\ \E serial_number \in SerialNumbers, port \in PortNames, opens \in BOOLEAN :
     \E outcomes \in IF serial_number # None \/ port = None THEN Outcomes ELSE {NoReplies} :
       LET args == [serial_number |-> serial_number, port |-> port]
           found == IF serial_number # None \/ port = None
                      THEN GetConnectedDevices(outcomes)
                      ELSE NoDevices
           device_meta == FirstMatch(found.validated_devices, serial_number, port, 1)
           target_port == IF device_meta # None THEN Some(device_meta[1].comport)
                          ELSE port
       IN  IF is_open
             THEN /\ last_call' = Call("connect", args, Some(TRUE), "")
                  /\ UNCHANGED << ser_is_open, ser_port, worker, readers, nreaders,
                                  signals, serial_number_save >>
           ELSE IF found.raised # ""
             THEN /\ last_call' = Call("connect", args, None, found.raised)
                  /\ UNCHANGED << ser_is_open, ser_port, worker, readers, nreaders,
                                  signals, serial_number_save >>
           ELSE IF target_port = None
             THEN /\ last_call' = Call("connect", args, Some(FALSE), "")
                  /\ UNCHANGED << ser_is_open, ser_port, worker, readers, nreaders,
                                  signals, serial_number_save >>
           ELSE IF ~opens
             THEN /\ ser_port' = target_port
                  /\ last_call' = Call("connect", args, None, "SerialException")
                  /\ UNCHANGED << ser_is_open, worker, readers, nreaders, signals,
                                  serial_number_save >>
           ELSE /\ ser_port' = target_port
                /\ ser_is_open' = TRUE
                /\ StartReader
                /\ serial_number_save' = IF device_meta # None
                                           THEN Some(device_meta[1].serial_number)
                                           ELSE serial_number_save
                /\ last_call' = Call("connect", args, Some(TRUE), "")
  /\ UNCHANGED << codec_vars, writer_vars, reader_vars, builder_vars, wire >>

\* PulseGenerator._stop_reader: the worker is told to stop and the thread is
\* waited for; joined tells whether the reader has left run() when
\* wait(1500) returns, and the references are dropped either way
StopReader(joined) ==
  /\ readers' = IF worker # None /\ worker[1] \in DOMAIN readers
                  THEN IF joined
                         THEN [id \in DOMAIN readers \ {worker[1]} |-> readers[id]]
                         ELSE [readers EXCEPT ![worker[1]] = FALSE]
                  ELSE readers
  /\ worker' = None

\* PulseGenerator.disconnect
disconnect ==
  /\ ndevcalls < MaxDeviceCalls
  /\ ndevcalls' = ndevcalls + 1
  /\ \E joined \in BOOLEAN : StopReader(joined)
  /\ ser_is_open' = FALSE
  /\ signals' = Append(signals, "disconnected")
  /\ last_call' = Call("disconnect", << >>, None, "")
  /\ UNCHANGED << codec_vars, writer_vars, reader_vars, builder_vars, ser_port, nreaders, wire, serial_number_save >>

\* PulseGenerator.get_connected_devices
get_connected_devices ==
  /\ ndevcalls < MaxDeviceCalls
  /\ ndevcalls' = ndevcalls + 1
  /\ \E outcomes \in Outcomes :
       LET found == GetConnectedDevices(outcomes)
       IN  last_call' =
             Call("get_connected_devices", outcomes,
                  IF found.raised = ""
                    THEN Some([validated_devices |-> found.validated_devices,
                               unvalidated_devices |-> found.unvalidated_devices])
                    ELSE None,
                  found.raised)
  /\ UNCHANGED << codec_vars, writer_vars, reader_vars, builder_vars, ser_is_open, ser_port, worker, readers, nreaders,
                  signals, wire, serial_number_save >>

\* SerialWorker.run leaves its loop: _running was found False, or a read
\* raised SerialException, which is reported through errorOccurred
run_exit ==
  /\ \E id \in DOMAIN readers, read_error \in BOOLEAN :
       /\ ~readers[id] \/ read_error
       /\ readers' = [r \in DOMAIN readers \ {id} |-> readers[r]]
       /\ signals' = IF read_error THEN Append(signals, "errorOccurred") ELSE signals
       /\ last_call' = Call("run", [reader |-> id], None, "")
  /\ UNCHANGED << codec_vars, writer_vars, reader_vars, builder_vars, ser_is_open, ser_port, worker, nreaders, wire,
                  serial_number_save, ndevcalls >>

\* the arguments write_device_options hands to transcode.encode_device_options
DeviceOptions(final_address_arg, run_mode, accept_hardware_trigger, trigger_out_length, trigger_out_delay, notify_on_main_trig_out, notify_when_run_finished, software_run_enable) ==
  [kind |-> "device_options", final_address |-> final_address_arg, run_mode |-> run_mode,
   accept_hardware_trigger |-> accept_hardware_trigger,
   trigger_out_length |-> trigger_out_length, trigger_out_delay |-> trigger_out_delay,
   notify_on_main_trig_out |-> notify_on_main_trig_out,
   notify_when_run_finished |-> notify_when_run_finished,
   software_run_enable |-> software_run_enable]

\* PulseGenerator.write_instructions: one command for the whole list when
\* transcode has encode_instructions, else one command for each instruction
WriteInstructions(instrs, batch) ==
  IF batch
    THEN << [kind |-> "instructions", payload |-> instrs] >>
    ELSE [i \in 1 .. Len(instrs) |-> [kind |-> "instructions", payload |-> << instrs[i] >>]]

\* the names of the keyword arguments of write_device_options
OptionFields ==
  {"final_address", "run_mode", "accept_hardware_trigger", "trigger_out_length",
   "trigger_out_delay", "notify_on_main_trig_out", "notify_when_run_finished",
   "software_run_enable"}

\* keyword arguments that default to 0
KwArg_DefaultZero(kwargs, name) == IF name \in DOMAIN kwargs THEN kwargs[name] ELSE Some(0)

\* the value of a keyword argument declared name=None in a call that
\* supplies kwargs
KwArg(kwargs, name) == IF name \in DOMAIN kwargs THEN kwargs[name] ELSE None

\* the command write_device_options(**kwargs) writes
WriteDeviceOptions(kwargs) ==
  DeviceOptions(KwArg(kwargs, "final_address"), KwArg(kwargs, "run_mode"),
                KwArg(kwargs, "accept_hardware_trigger"),
                KwArg(kwargs, "trigger_out_length"), KwArg(kwargs, "trigger_out_delay"),
                KwArg(kwargs, "notify_on_main_trig_out"),
                KwArg(kwargs, "notify_when_run_finished"),
                KwArg(kwargs, "software_run_enable"))

\* an upload that writes the device options before the instructions
UploadCommands_OptionsFirst(instrs, final_address_arg, batch) ==
  << WriteDeviceOptions(Dict1("final_address", final_address_arg)) >>
    \o WriteInstructions(instrs, batch)

\* the commands upload_instructions writes, in order
UploadCommands(instrs, final_address_arg, batch) ==
  WriteInstructions(instrs, batch)
    \o << WriteDeviceOptions(Dict1("final_address", final_address_arg)) >>

\* keyword arguments write_device_options is called with
OptionKwargs ==
  {Dict1("run_mode", Some(0)),
   DictUpdate(Dict1("final_address", Some(1)), Dict1("software_run_enable", Some(0)))}

\* PulseGenerator.write_device_options, through write_command
write_device_options ==
  /\ ndevcalls < MaxDeviceCalls
  /\ ndevcalls' = ndevcalls + 1
  /\ \E kwargs \in OptionKwargs, written \in BOOLEAN :
       /\ ~is_open => ~written
       /\ wire' = IF written THEN Append(wire, WriteDeviceOptions(kwargs)) ELSE wire
       /\ last_call' = Call("write_device_options", kwargs, None,
                            IF written THEN ""
                            ELSE IF ~is_open THEN "PortNotOpenError"
                            ELSE "SerialTimeoutException")
  /\ UNCHANGED << codec_vars, writer_vars, reader_vars, builder_vars, ser_is_open, ser_port, worker,
                  readers, nreaders, signals, serial_number_save >>

\* Compiler.upload_instructions on the PulseGenerator; every command goes
\* through write_command, which raises when the port is not open and whose
\* ser.write can time out: written is the number of commands that got out
upload_instructions ==
  /\ ndevcalls < MaxDeviceCalls
  /\ ndevcalls' = ndevcalls + 1
  /\ \E batch \in BOOLEAN :
       LET commands == UploadCommands(instructions, final_address, batch)
       IN  \E written \in 0 .. Len(commands) :
             /\ ~is_open => written = 0
             /\ wire' = wire \o SubSeq(commands, 1, written)
             /\ last_call' =
                  Call("upload_instructions",
                       [compiled |-> last_call.op = "compile" /\ last_call.ret # None],
                       None,
                       IF written = Len(commands) THEN ""
                       ELSE IF ~is_open THEN "PortNotOpenError"
                       ELSE "SerialTimeoutException")
  /\ UNCHANGED << codec_vars, writer_vars, reader_vars, builder_vars, ser_is_open, ser_port, worker, readers, nreaders,
                  signals, serial_number_save >>

(***************************************************************************)
(* The background reader: SerialWorker of gui.py.                          *)
(***************************************************************************)
\* transcode.msgin_decodeinfo: message id -> frame length and category, for
\* two message types whose frames are cut down to a few bytes
msgin_decodeinfo ==
  (1 :> [message_length |-> 3, message_type |-> "echo"])
  @@ (2 :> [message_length |-> 2, message_type |-> "print"])

\* the bytes the device sends: 0 is the id of no message
Bytes == {0, 1, 2}

\* dinfo["decode_function"](payload): the fields are the payload's bytes
decode_function(id, payload) == payload

\* a signal SerialWorker emits
WorkerEvent(signal, id, payload) == [signal |-> signal, msg_id |-> id, payload |-> payload]

\* the signal of a message category in the if/elif chain of run
CategorySignal(mtype) ==
  CASE mtype = "devicestate" -> Some("devicestate")
    [] mtype = "powerlinestate" -> Some("powerlinestate")
    [] mtype = "devicestate_extras" -> Some("devicestate_extras")
    [] mtype = "notification" -> Some("notification")
    [] mtype = "echo" -> Some("echo")
    [] mtype = "print" -> Some("easyprint")
    [] mtype = "error" -> Some("internalError")
    [] OTHER -> None

\* a run that passes over an unknown id without reporting it
OnIdByte_UnknownSilent(b) ==
  IF b \notin DOMAIN msgin_decodeinfo
    THEN [events |-> << >>, pc |-> "while", msg_id |-> None]
    ELSE [events |-> << >>, pc |-> "read_payload", msg_id |-> Some(b)]

\* what run does with the id byte b it has read
OnIdByte(b) ==
  IF b \notin DOMAIN msgin_decodeinfo
    THEN [events |-> << WorkerEvent("bytesDropped", b, << >>) >>, pc |-> "while",
          msg_id |-> None]
    ELSE [events |-> << >>, pc |-> "read_payload", msg_id |-> Some(b)]

\* the bytes of the payload still to read after the id
Remaining(id) == msgin_decodeinfo[id].message_length - 1

\* a run that decodes whatever the payload read returned
OnPayload_NoLengthCheck(id, payload) ==
  LET decoded == decode_function(id, payload)
      category == CategorySignal(msgin_decodeinfo[id].message_type)
  IN  << WorkerEvent("messageReceived", id, decoded) >>
        \o (IF category # None THEN << WorkerEvent(category[1], id, decoded) >>
            ELSE << >>)

\* what run emits for the payload it has read for the message id
OnPayload(id, payload) ==
  IF Len(payload) # Remaining(id)
    THEN << WorkerEvent("bytesDropped", id, << >>) >>
    ELSE LET decoded == decode_function(id, payload)
             category == CategorySignal(msgin_decodeinfo[id].message_type)
         IN  << WorkerEvent("messageReceived", id, decoded) >>
               \o (IF category # None THEN << WorkerEvent(category[1], id, decoded) >>
                   ELSE << >>)

\* a run whose read error is followed by another turn of the loop
OnReadError_Continues == "while"

\* where run goes after a read raised SerialException: break, to the finally
OnReadError == "finally"

\* a loop that does not look at _running
LoopContinues_IgnoresStop(is_running) == TRUE

\* while self._running
LoopContinues(is_running) == is_running

\* the device puts one more byte into the input buffer of the port
device_sends ==
  /\ nsent < MaxBytes
  /\ nsent' = nsent + 1
  /\ \E b \in Bytes : inbuf' = Append(inbuf, b)
  /\ UNCHANGED << codec_vars, writer_vars, builder_vars, device_vars, last_call, run_pc, running, cancel_pending,
                  msg_id, worker_signals, nworkers >>

\* SerialWorker.stop
stop ==
  /\ running' = FALSE
  /\ cancel_pending' = TRUE
  /\ UNCHANGED << codec_vars, writer_vars, builder_vars, device_vars, last_call, run_pc, inbuf, msg_id,
                  worker_signals, nsent, nworkers >>

\* SerialWorker.run: the test of the while loop
run_while ==
  /\ run_pc = "while"
  /\ run_pc' = IF LoopContinues(running) THEN "read_id" ELSE "finally"
  /\ UNCHANGED << codec_vars, writer_vars, builder_vars, device_vars, last_call, running, cancel_pending, inbuf,
                  msg_id, worker_signals, nsent, nworkers >>

\* SerialWorker.run: b = self.ser.read(1) and what follows up to the payload
\* read.  The read raises, or returns nothing (timeout on an empty buffer, or
\* a cancelled read), or returns the next byte.
run_read_id ==
  /\ run_pc = "read_id"
  /\ \/ /\ worker_signals' = Append(worker_signals, WorkerEvent("errorOccurred", 0, << >>))
        /\ run_pc' = OnReadError
        /\ UNCHANGED << inbuf, msg_id, cancel_pending >>
     \/ /\ inbuf = << >> \/ cancel_pending
        /\ run_pc' = "while"
        /\ cancel_pending' = FALSE
        /\ UNCHANGED << inbuf, msg_id, worker_signals >>
     \/ /\ inbuf # << >>
        /\ LET r == OnIdByte(Head(inbuf))
           IN  /\ inbuf' = Tail(inbuf)
               /\ worker_signals' = worker_signals \o r.events
               /\ run_pc' = r.pc
               /\ msg_id' = r.msg_id
        /\ UNCHANGED cancel_pending
  /\ UNCHANGED << codec_vars, writer_vars, builder_vars, device_vars, last_call, running, nsent, nworkers >>

\* SerialWorker.run: payload = self.ser.read(remaining) and what follows.
\* The read raises, or returns all the bytes asked for, or fewer: those in
\* the buffer at the timeout, or those read when the read was cancelled.
run_read_payload ==
  /\ run_pc = "read_payload"
  /\ \/ /\ worker_signals' = Append(worker_signals, WorkerEvent("errorOccurred", 0, << >>))
        /\ run_pc' = OnReadError
        /\ UNCHANGED << inbuf, msg_id, cancel_pending >>
     \/ \E n \in 0 .. Remaining(msg_id[1]) :
          /\ n <= Len(inbuf)
          /\ \/ n = Remaining(msg_id[1]) /\ UNCHANGED cancel_pending
             \/ n = Len(inbuf) /\ UNCHANGED cancel_pending
             \/ cancel_pending /\ cancel_pending' = FALSE
          /\ inbuf' = SubSeq(inbuf, n + 1, Len(inbuf))
          /\ worker_signals' = worker_signals \o OnPayload(msg_id[1], SubSeq(inbuf, 1, n))
          /\ msg_id' = None
          /\ run_pc' = "while"
  /\ UNCHANGED << codec_vars, writer_vars, builder_vars, device_vars, last_call, running, nsent, nworkers >>

\* SerialWorker.run: finally: self.finished.emit()
run_finally ==
  /\ run_pc = "finally"
  /\ worker_signals' = Append(worker_signals, WorkerEvent("finished", 0, << >>))
  /\ run_pc' = "done"
  /\ UNCHANGED << codec_vars, writer_vars, builder_vars, device_vars, last_call, running, cancel_pending, inbuf,
                  msg_id, nsent, nworkers >>

\* a later reader: the port is opened again, its buffers are reset and
\* _start_reader runs a new SerialWorker on it (the thread's started signal
\* calls run)
new_worker ==
  /\ run_pc = "done"
  /\ nworkers < MaxWorkers
  /\ nworkers' = nworkers + 1
  /\ running' = TRUE
  /\ run_pc' = "while"
  /\ inbuf' = << >>
  /\ cancel_pending' = FALSE
  /\ msg_id' = None
  /\ worker_signals' = Append(worker_signals, WorkerEvent("started", 0, << >>))
  /\ UNCHANGED << codec_vars, writer_vars, builder_vars, device_vars, last_call, nsent >>

(***************************************************************************)
(* Concurrent callers of PulseGenerator.write_command.                     *)
(***************************************************************************)
\* a lock that is handed to whoever asks
LockFree_Always(lock) == TRUE

\* threading.Lock: with self._write_lock is entered when no one holds it
LockFree(lock) == lock = None

\* the byte a caller puts on the wire: the index-th byte of its command
WrittenByte(w, command, index) ==
  [kind |-> "byte", writer |-> w, command |-> command, index |-> index]

\* write_command: if not self.is_open(): raise PortNotOpenError
write_command_check(Callers) ==
  /\ ncommands < MaxCommands
  /\ ncommands' = ncommands + 1
  /\ \E w \in Callers :
       /\ wpc[w] = "idle"
       /\ IF ~is_open
            THEN /\ last_call' = Call("write_command", [writer |-> w], None,
                                      "PortNotOpenError")
                 /\ UNCHANGED wpc
            ELSE /\ wpc' = [wpc EXCEPT ![w] = "acquire"]
                 /\ UNCHANGED last_call
       /\ wcommand' = [wcommand EXCEPT ![w] = ncommands + 1]
  /\ UNCHANGED << codec_vars, builder_vars, device_vars, reader_vars, write_lock, wsent,
                  uploading >>

\* write_command: with self._write_lock
write_command_acquire ==
  /\ \E w \in Writers :
       /\ wpc[w] = "acquire"
       /\ LockFree(write_lock)
       /\ write_lock' = Some(w)
       /\ wpc' = [wpc EXCEPT ![w] = "write"]
       /\ wsent' = [wsent EXCEPT ![w] = 0]
  /\ UNCHANGED << codec_vars, builder_vars, device_vars, reader_vars, last_call, wcommand,
                  ncommands, uploading >>

\* write_command: self.ser.write(encoded_command), one byte of the command at
\* a step; the write raises when the port is closed or the write times out,
\* and the lock is given back when the write returns or raises
write_command_write ==
  /\ \E w \in Writers :
       /\ wpc[w] = "write"
       /\ \/ /\ ~ser_is_open
             /\ last_call' = Call("write_command", [writer |-> w], None,
                                  "PortNotOpenError")
             /\ wpc' = [wpc EXCEPT ![w] = "idle"]
             /\ write_lock' = None
             /\ UNCHANGED << wire, wsent >>
          \/ /\ ser_is_open
             /\ last_call' = Call("write_command", [writer |-> w], None,
                                  "SerialTimeoutException")
             /\ wpc' = [wpc EXCEPT ![w] = "idle"]
             /\ write_lock' = None
             /\ UNCHANGED << wire, wsent >>
          \/ /\ ser_is_open
             /\ wire' = Append(wire, WrittenByte(w, wcommand[w], wsent[w] + 1))
             /\ wsent' = [wsent EXCEPT ![w] = @ + 1]
             /\ IF wsent[w] + 1 = CommandBytes
                  THEN /\ last_call' = Call("write_command", [writer |-> w], None, "")
                       /\ wpc' = [wpc EXCEPT ![w] = "idle"]
                       /\ write_lock' = None
                  ELSE UNCHANGED << last_call, wpc, write_lock >>
  /\ UNCHANGED << codec_vars, builder_vars, ser_is_open, ser_port, worker, readers, nreaders,
                  signals, serial_number_save, ndevcalls, reader_vars, wcommand,
                  ncommands, uploading >>

(***************************************************************************)
(* Compiler.upload_instructions next to concurrent callers of              *)
(* write_command: the upload is a sequence of write_command calls.         *)
(***************************************************************************)
\* upload_instructions is entered: the commands it is going to write
upload_begin ==
  /\ ndevcalls < MaxDeviceCalls
  /\ ndevcalls' = ndevcalls + 1
  /\ uploading = None
  /\ \E batch \in BOOLEAN :
       uploading' = Some([commands |-> UploadCommands(instructions, final_address, batch),
                          written |-> 0])
  /\ UNCHANGED << codec_vars, builder_vars, last_call, ser_is_open, ser_port, worker,
                  readers, nreaders, signals, wire, serial_number_save, reader_vars,
                  wpc, write_lock, wsent, wcommand, ncommands >>

\* the next write_command of the upload: it raises when the port is not open
\* or the write times out, and else writes its command under the lock
upload_write_command ==
  /\ uploading # None
  /\ LET commands == uploading[1].commands
         written == uploading[1].written
         args == [compiled |-> final_address # None]
     IN  \/ /\ ~is_open
            /\ uploading' = None
            /\ last_call' = Call("upload_instructions", args, None, "PortNotOpenError")
            /\ UNCHANGED wire
         \/ /\ is_open
            /\ LockFree(write_lock)
            /\ uploading' = None
            /\ last_call' = Call("upload_instructions", args, None,
                                 "SerialTimeoutException")
            /\ UNCHANGED wire
         \/ /\ is_open
            /\ LockFree(write_lock)
            /\ wire' = Append(wire, commands[written + 1])
            /\ IF written + 1 = Len(commands)
                 THEN /\ uploading' = None
                      /\ last_call' = Call("upload_instructions", args, None, "")
                 ELSE /\ uploading' = Some([commands |-> commands, written |-> written + 1])
                      /\ UNCHANGED last_call
  /\ UNCHANGED << codec_vars, builder_vars, ser_is_open, ser_port, worker, readers,
                  nreaders, signals, serial_number_save, ndevcalls, reader_vars,
                  wpc, write_lock, wsent, wcommand, ncommands >>

(***************************************************************************)
(* The Wire Codec: the encoders and decoders of ndpulsegen.transcode.      *)
(* A frame is one id byte followed by a payload of fixed length: a         *)
(* presence bitmap when the message has optional fields, a byte of flag    *)
(* bits when it has boolean fields, then the other fields in order, each   *)
(* in its own width, least significant byte first.                         *)
(***************************************************************************)
\* one field of a message: its name, kind, width in bytes, and whether the
\* caller may leave it out
Field(name, kind, width, optional) ==
  [name |-> name, kind |-> kind, width |-> width, optional |-> optional]

\* the values of accept_hardware_trigger, in wire order
TriggerModes == << "never", "always", "single_run", "once" >>

\* the fields of each message category: the commands sent to the device and
\* the messages received from it
MessageFields ==
  [instruction |->
     << Field("address", "uint", 2, FALSE), Field("duration", "uint", 3, FALSE),
        Field("state", "state", 3, FALSE), Field("goto_address", "uint", 2, FALSE),
        Field("goto_counter", "uint", 2, FALSE),
        Field("stop_and_wait", "bool", 0, FALSE),
        Field("hardware_trig_out", "bool", 0, FALSE),
        Field("notify_computer", "bool", 0, FALSE),
        Field("powerline_sync", "bool", 0, FALSE) >>,
   echo_probe |-> << Field("byte_to_echo", "uint", 1, FALSE) >>,
   device_options |->
     << Field("final_address", "uint", 2, TRUE), Field("run_mode", "uint", 1, TRUE),
        Field("accept_hardware_trigger", "enum", 1, TRUE),
        Field("trigger_out_length", "uint", 1, TRUE),
        Field("trigger_out_delay", "uint", 3, TRUE),
        Field("notify_on_main_trig_out", "bool", 0, TRUE),
        Field("notify_when_run_finished", "bool", 0, TRUE),
        Field("software_run_enable", "bool", 0, TRUE) >>,
   powerline_trigger_options |->
     << Field("trigger_on_powerline", "bool", 0, TRUE),
        Field("powerline_trigger_delay", "uint", 3, TRUE) >>,
   action |->
     << Field("trigger_now", "bool", 0, FALSE),
        Field("disable_after_current_run", "bool", 0, FALSE),
        Field("disarm", "bool", 0, FALSE), Field("request_state", "bool", 0, FALSE),
        Field("request_powerline_state", "bool", 0, FALSE),
        Field("request_state_extras", "bool", 0, FALSE) >>,
   static_state |-> << Field("state", "state", 3, FALSE) >>,
   general_debug |-> << Field("payload", "uint", 3, FALSE) >>,
   devicestate |->
     << Field("running", "bool", 0, FALSE), Field("software_run_enable", "bool", 0, FALSE),
        Field("hardware_run_enable", "bool", 0, FALSE),
        Field("current_address", "uint", 2, FALSE), Field("final_address", "uint", 2, FALSE),
        Field("accept_hardware_trigger", "enum", 1, FALSE),
        Field("clock_source", "uint", 1, FALSE),
        Field("notify_on_run_finished", "bool", 0, FALSE),
        Field("notify_on_main_trig_out", "bool", 0, FALSE),
        Field("trigger_out_length", "uint", 1, FALSE),
        Field("trigger_out_delay", "uint", 3, FALSE), Field("state", "state", 3, FALSE) >>,
   powerlinestate |->
     << Field("trig_on_powerline", "bool", 0, FALSE),
        Field("powerline_locked", "bool", 0, FALSE),
        Field("powerline_period", "uint", 3, FALSE),
        Field("powerline_trigger_delay", "uint", 3, FALSE) >>,
   devicestate_extras |-> << Field("run_time", "uint", 3, FALSE) >>,
   notification |->
     << Field("address", "uint", 2, FALSE), Field("address_notify", "bool", 0, FALSE),
        Field("trigger_notify", "bool", 0, FALSE), Field("finished_notify", "bool", 0, FALSE),
        Field("run_time", "uint", 3, FALSE) >>,
   echo |->
     << Field("echoed_byte", "uint", 1, FALSE), Field("device_type", "uint", 1, FALSE),
        Field("hardware_version", "uint", 2, FALSE),
        Field("firmware_version", "uint", 2, FALSE),
        Field("serial_number", "uint", 3, FALSE) >>,
   print |-> << Field("easy_printed_value", "uint", 3, FALSE) >>,
   error |-> << Field("payload", "uint", 3, FALSE) >>]

MessageCategories == DOMAIN MessageFields

\* the id byte of each category; 0 is the id of no message
MessageIds ==
  [echo |-> 1, print |-> 2, error |-> 3, devicestate |-> 4, powerlinestate |-> 5,
   devicestate_extras |-> 6, notification |-> 7, instruction |-> 8, echo_probe |-> 9,
   device_options |-> 10, powerline_trigger_options |-> 11, action |-> 12,
   static_state |-> 13, general_debug |-> 14]

CategoryOf(id) == CHOOSE c \in MessageCategories : MessageIds[c] = id

OptionalFields(fs) == SelectSeq(fs, LAMBDA fld : fld.optional)
BoolFields(fs) == SelectSeq(fs, LAMBDA fld : fld.kind = "bool")

\* the bytes that precede the fields: id, presence bitmap, flag bits
HeaderLength(fs) ==
  1 + (IF OptionalFields(fs) = << >> THEN 0 ELSE 1)
    + (IF BoolFields(fs) = << >> THEN 0 ELSE 1)

\* the number of bytes fields 1..n take after the header
RECURSIVE FieldsLength(_, _)
FieldsLength(fs, n) == IF n = 0 THEN 0 ELSE fs[n].width + FieldsLength(fs, n - 1)

\* the total fixed frame length of a category
FrameLength(c) ==
  HeaderLength(MessageFields[c]) + FieldsLength(MessageFields[c], Len(MessageFields[c]))

\* an unsigned integer in width bytes, least significant byte first
RECURSIVE UintBytes(_, _)
UintBytes(v, width) ==
  IF width = 0 THEN << >> ELSE << v % 256 >> \o UintBytes(v \div 256, width - 1)

RECURSIVE BytesUint(_)
BytesUint(bytes) ==
  IF bytes = << >> THEN 0 ELSE bytes[1] + 256 * BytesUint(Tail(bytes))

\* up to eight booleans in one byte, the first in bit 0
RECURSIVE BitsByte(_)
BitsByte(bits) ==
  IF bits = << >> THEN 0
  ELSE (IF bits[1] THEN 1 ELSE 0) + 2 * BitsByte(Tail(bits))

\* bit i of a byte, counted from 1
Bit(byte, i) == (byte \div (2 ^ (i - 1))) % 2 = 1

\* the 24 channels in three bytes, channel 0 in bit 0 of the first
StateBytes(state) ==
  [j \in 1 .. 3 |-> BitsByte([i \in 1 .. 8 |-> state[8 * (j - 1) + i - 1]])]

BytesState(bytes) ==
  [ch \in Channels |-> Bit(bytes[(ch \div 8) + 1], (ch % 8) + 1)]

\* the position of a value in a sequence that holds it
IndexOf(seq, v) == CHOOSE i \in DOMAIN seq : seq[i] = v

\* the value written for a field the caller left out
ZeroValue(kind) ==
  CASE kind = "uint" -> 0
    [] kind = "bool" -> FALSE
    [] kind = "enum" -> TriggerModes[1]

\* the value of a field of a message: the caller's, or the zero value
FieldValue(fld, fields) ==
  IF fld.optional
    THEN IF fields[fld.name] = None THEN ZeroValue(fld.kind) ELSE fields[fld.name][1]
    ELSE fields[fld.name]

\* the bytes of one field after the header; booleans live in the flag bits
ValueBytes(fld, v) ==
  CASE fld.kind = "uint" -> UintBytes(v, fld.width)
    [] fld.kind = "enum" -> << IndexOf(TriggerModes, v) - 1 >>
    [] fld.kind = "state" -> StateBytes(v)
    [] fld.kind = "bool" -> << >>

BytesValue(fld, bytes) ==
  CASE fld.kind = "uint" -> BytesUint(bytes)
    [] fld.kind = "enum" -> TriggerModes[(bytes[1] % Len(TriggerModes)) + 1]
    [] fld.kind = "state" -> BytesState(bytes)

\* a presence bitmap that marks every optional field as supplied
PresenceBits_AllSupplied(fs, fields) ==
  [k \in 1 .. Len(OptionalFields(fs)) |-> TRUE]

\* the presence bitmap: one bit per optional field, set when it is supplied
PresenceBits(fs, fields) ==
  [k \in 1 .. Len(OptionalFields(fs)) |-> fields[OptionalFields(fs)[k].name] # None]

FlagBits(fs, fields) ==
  [k \in 1 .. Len(BoolFields(fs)) |-> FieldValue(BoolFields(fs)[k], fields)]

RECURSIVE FieldsBytes(_, _, _)
FieldsBytes(fs, fields, n) ==
  IF n = 0 THEN << >>
  ELSE FieldsBytes(fs, fields, n - 1) \o ValueBytes(fs[n], FieldValue(fs[n], fields))

\* encode_<category>(fields): the frame of one message
Encode(message) ==
  LET fs == MessageFields[message.category]
  IN  << MessageIds[message.category] >>
      \o (IF OptionalFields(fs) = << >> THEN << >>
          ELSE << BitsByte(PresenceBits(fs, message.fields)) >>)
      \o (IF BoolFields(fs) = << >> THEN << >>
          ELSE << BitsByte(FlagBits(fs, message.fields)) >>)
      \o FieldsBytes(fs, message.fields, Len(fs))

\* encode_instructions(instructions): the frames one after the other
RECURSIVE EncodeInstructions(_)
EncodeInstructions(messages) ==
  IF messages = << >> THEN << >>
  ELSE Encode(Head(messages)) \o EncodeInstructions(Tail(messages))

\* the number of fields among fs[1..i] that satisfy the selection
Rank(fs, i, selected) == Len(SelectSeq(SubSeq(fs, 1, i), LAMBDA fld : fld \in selected))

\* decode_<category>(frame): the fields of a frame of the right length
DecodeFields(c, frame) ==
  LET fs == MessageFields[c]
      optionals == {fs[i] : i \in {j \in DOMAIN fs : fs[j].optional}}
      bools == {fs[i] : i \in {j \in DOMAIN fs : fs[j].kind = "bool"}}
      presence_at == 2
      flags_at == IF optionals = {} THEN 2 ELSE 3
  IN  [name \in {fs[i].name : i \in DOMAIN fs} |->
         LET i == CHOOSE j \in DOMAIN fs : fs[j].name = name
             offset == HeaderLength(fs) + FieldsLength(fs, i - 1)
             raw == IF fs[i].kind = "bool"
                      THEN Bit(frame[flags_at], Rank(fs, i, bools))
                      ELSE BytesValue(fs[i], SubSeq(frame, offset + 1, offset + fs[i].width))
         IN  IF fs[i].optional
               THEN IF Bit(frame[presence_at], Rank(fs, i, optionals))
                      THEN Some(raw) ELSE None
               ELSE raw]

\* the messages in a stream of bytes, by the framing contract: an unknown id
\* byte is dropped, a known one is followed by the rest of its frame
RECURSIVE DecodeStream(_)
DecodeStream(bytes) ==
  IF bytes = << >> THEN << >>
  ELSE IF bytes[1] \notin {MessageIds[c] : c \in MessageCategories}
    THEN DecodeStream(Tail(bytes))
  ELSE LET c == CategoryOf(bytes[1])
       IN  IF Len(bytes) < FrameLength(c) THEN << >>
           ELSE << [category |-> c, fields |-> DecodeFields(c, bytes)] >>
                \o DecodeStream(SubSeq(bytes, FrameLength(c) + 1, Len(bytes)))

\* the values of a field that messages are made of: the ends of its range
\* and a value whose bytes differ
FieldSamples(fld) ==
  LET values ==
        CASE fld.kind = "uint" -> {0, (256 ^ fld.width) - 2, (256 ^ fld.width) - 1}
          [] fld.kind = "bool" -> BOOLEAN
          [] fld.kind = "enum" -> {TriggerModes[i] : i \in DOMAIN TriggerModes}
          [] fld.kind = "state" -> {[ch \in Channels |-> FALSE],
                                    [ch \in Channels |-> ch \in {0, 9, 23}]}
  IN  IF fld.optional THEN {None} \cup {Some(v) : v \in values} ELSE values

\* the field records of a category, over the sampled values
RECURSIVE FieldRecords(_)
FieldRecords(fs) ==
  IF fs = << >> THEN {<< >>}
  ELSE {(Head(fs).name :> v) @@ r : v \in FieldSamples(Head(fs)), r \in FieldRecords(Tail(fs))}

\* the instructions uploaded in one batch
BatchInstructions ==
  {f \in FieldRecords(MessageFields["instruction"]) :
     /\ f.duration = 0 /\ f.goto_counter = 0 /\ ~f.stop_and_wait
     /\ ~f.hardware_trig_out /\ ~f.powerline_sync}

\* a caller encodes one message
encode ==
  /\ codec_frame = None
  /\ \E c \in MessageCategories : \E f \in FieldRecords(MessageFields[c]) :
       /\ codec_x' = << [category |-> c, fields |-> f] >>
       /\ codec_frame' = Some(Encode([category |-> c, fields |-> f]))
  /\ UNCHANGED << builder_vars, last_call, device_vars, reader_vars, writer_vars,
                  codec_out >>

\* a caller encodes a batch of two instructions
encode_instructions ==
  /\ codec_frame = None
  /\ \E f1 \in BatchInstructions, f2 \in BatchInstructions :
       LET batch == << [category |-> "instruction", fields |-> f1],
                       [category |-> "instruction", fields |-> f2] >>
       IN  /\ codec_x' = batch
           /\ codec_frame' = Some(EncodeInstructions(batch))
  /\ UNCHANGED << builder_vars, last_call, device_vars, reader_vars, writer_vars,
                  codec_out >>

\* the receiver decodes the bytes
decode ==
  /\ codec_frame # None
  /\ codec_out = None
  /\ codec_out' = Some(DecodeStream(codec_frame[1]))
  /\ UNCHANGED << builder_vars, last_call, device_vars, reader_vars, writer_vars,
                  codec_x, codec_frame >>

Next ==
  \/ set_starting_state
  \/ set_sequence_duration
  \/ add_update(Times, UpdateArgs)
  \/ add_goto
  \/ channel(HandleChannels)
  \/ high_low
  \/ pulse(FewPulseArgs)
  \/ compile({FALSE})

Spec == Init /\ [][Next]_vars

\* one Compiler on which pulses are called with every argument within the bounds
NextPulse ==
  \/ add_update(Times, UpdateArgs)
  \/ channel(HandleChannels)
  \/ pulse(PulseArgs)
  \/ compile({FALSE})

SpecPulse == Init /\ [][NextPulse]_vars

\* one Compiler on which handles of two channels are requested and used
NextChannel ==
  \/ channel(TwoChannels)
  \/ set_starting_state
  \/ high_low

SpecChannel == Init /\ [][NextChannel]_vars

\* one Compiler whose caller keeps a Program while it goes on building
NextHeld ==
  \/ set_starting_state
  \/ set_sequence_duration
  \/ add_update(Times, UpdateArgs)
  \/ add_goto
  \/ compile(BOOLEAN)
  \/ get_instructions

SpecHeld == Init /\ [][NextHeld]_vars

\* the Device Channel alone
NextDevice ==
  \/ connect(SerialArgs, PortArgs)
  \/ disconnect
  \/ get_connected_devices
  \/ run_exit

SpecDevice == Init /\ [][NextDevice]_vars

\* a Compiler that builds, compiles and uploads through the Device Channel
NextUpload ==
  \/ add_update(Times, FewUpdateArgs)
  \/ compile({FALSE})
  \/ connect({None}, {Some("COM1")})
  \/ disconnect
  \/ upload_instructions

SpecUpload == Init /\ [][NextUpload]_vars

\* one port, the device sending on it, and the SerialWorkers reading it
NextReader ==
  \/ device_sends
  \/ stop
  \/ run_while
  \/ run_read_id
  \/ run_read_payload
  \/ run_finally
  \/ new_worker

SpecReader == Init /\ [][NextReader]_vars

\* two threads writing commands while the port is connected and disconnected
\* and the SerialWorker runs
NextWrite ==
  \/ connect({None}, {Some("COM1")})
  \/ disconnect
  \/ write_command_check(Writers)
  \/ write_command_acquire
  \/ write_command_write
  \/ run_while
  \/ run_read_id
  \/ run_finally

SpecWrite == Init /\ [][NextWrite]_vars

\* device options written by the caller and by uploads
NextOptions ==
  \/ add_update(Times, FewUpdateArgs)
  \/ compile({FALSE})
  \/ connect({None}, {Some("COM1")})
  \/ upload_instructions
  \/ write_device_options

SpecOptions == Init /\ [][NextOptions]_vars

\* an upload while other threads write commands
NextUploadRace ==
  \/ add_update({0}, {<<Dict1(0, TRUE), NoFlags>>})
  \/ compile({FALSE})
  \/ connect({None}, {Some("COM1")})
  \/ upload_begin
  \/ upload_write_command
  \/ write_command_check({"w1"})
  \/ write_command_acquire
  \/ write_command_write

SpecUploadRace == Init /\ [][NextUploadRace]_vars

\* one Compiler whose timeline is edited and compiled
NextOrder ==
  \/ add_update(Times, UpdateArgs)
  \/ add_goto
  \/ compile({FALSE})

SpecOrder == Init /\ [][NextOrder]_vars

\* messages encoded and decoded again
NextCodec ==
  \/ encode
  \/ encode_instructions
  \/ decode

SpecCodec == Init /\ [][NextCodec]_vars

(***************************************************************************)
(* Vocabulary of the properties.                                           *)
(***************************************************************************)
\* compile() was the last call and it returned an instruction list;
\* updates, starting_state and sequence_duration are then what it compiled
Compiled ==
  /\ last_call.op = "compile"
  /\ last_call.raised = ""
  /\ last_call.ret # None

NumInstructions == Len(instructions)

\* the cycle at which the instruction at address a starts, and the one it ends at
StartOf(a) == sorted_updates[a + 1][1]
EndOf(a) == sorted_updates[a + 2][1]

FirstScheduledTime == Min(DOMAIN updates)
LastScheduledTime == Max(DOMAIN updates)

RECURSIVE SumDurations(_)
SumDurations(n) == IF n = 0 THEN 0 ELSE instructions[n].duration + SumDurations(n - 1)

\* C1 (the claim as stated): after a compile() that returns, every emitted
\* instruction has a duration of at least 1 cycle.
C1_DurationsAtLeastOne ==
  Compiled => \A i \in DOMAIN instructions : instructions[i].duration >= 1

\* C2 (the claim as stated): a compiled Program of N instructions has the
\* addresses 0..N-1 in list order, assigned in strictly ascending event time,
\* final_address = N-1, and one instruction per event of the walked list
\* except its last one, the terminal sentinel.
C2_AddressesAscending ==
  Compiled =>
    /\ \A i \in DOMAIN instructions : instructions[i].address = i - 1
    /\ final_address = Some(NumInstructions - 1)
    /\ \A a, b \in 0 .. (NumInstructions - 1) : a < b => StartOf(a) < StartOf(b)
    /\ NumInstructions = Len(sorted_updates) - 1
    /\ NumInstructions = Cardinality(DOMAIN updates \cup {0})

\* C3: the instruction at address 0 starts at cycle 0; with no event scheduled
\* at time 0 its state is starting_state, with one scheduled it differs from
\* starting_state on no channel that the event does not override.
C3_FirstInstructionState ==
  Compiled =>
    /\ StartOf(0) = 0
    /\ IF 0 \notin DOMAIN updates
         THEN instructions[1].state = [c \in Channels |-> starting_state[c]]
         ELSE \A c \in Channels :
                c \notin DOMAIN updates[0].states
                  => instructions[1].state[c] = starting_state[c]

\* C3 witness: an event scheduled at time 0 overrides a channel whose
\* starting state is high, next to a channel left at its high starting state
C3_Witness ==
  /\ Compiled
  /\ 0 \in DOMAIN updates
  /\ \E c \in DOMAIN updates[0].states : instructions[1].state[c] # starting_state[c]
  /\ \E c \in Channels : c \notin DOMAIN updates[0].states /\ starting_state[c]

\* C4: for the last add_goto(t_from, t_to, counter) of each t_from, some
\* instruction's interval contains cycle t_from-1, and every such instruction
\* has the goto counter `counter` and a goto target that is the address of an
\* instruction starting at t_to.
C4_GotoTarget ==
  Compiled =>
    \A t_from \in DOMAIN gotos :
      LET t_to == gotos[t_from][1]
          counter == gotos[t_from][2]
          covering == {a \in 0 .. (NumInstructions - 1) :
                         StartOf(a) <= t_from - 1 /\ t_from - 1 < EndOf(a)}
      IN  /\ covering # {}
          /\ \A a \in covering :
               /\ instructions[a + 1].goto_counter = counter
               /\ instructions[a + 1].goto_address \in 0 .. (NumInstructions - 1)
               /\ StartOf(instructions[a + 1].goto_address) = t_to

\* C4 witness: a goto compiled on a timeline with no event at time 0, so that
\* the synthetic time-0 event shifts the target's address
C4_Witness ==
  /\ Compiled
  /\ 0 \notin DOMAIN updates
  /\ \E t_from \in DOMAIN gotos :
       /\ t_from >= 1
       /\ \E i \in DOMAIN instructions :
            /\ StartOf(i - 1) = t_from - 1
            /\ instructions[i].goto_counter = gotos[t_from][2]
            /\ instructions[i].goto_address >= 1

\* C5 (the claim as stated, for t_from >= 1): the instruction that carries the
\* goto of add_goto(t_from, t_to, counter) starts at t_from-1 and ends at
\* t_from, whether or not an event is scheduled at t_from.
C5_GotoAtEndOfCycle ==
  Compiled =>
    \A t_from \in DOMAIN gotos :
      t_from >= 1 =>
      \E a \in 0 .. (NumInstructions - 1) :
        /\ instructions[a + 1].goto_counter = gotos[t_from][2]
        /\ StartOf(a) = t_from - 1
        /\ EndOf(a) = t_from
        /\ instructions[a + 1].duration = 1

\* C6 (the claim as stated, on timelines of non-negative times): the durations
\* of all instructions but the last sum to the last scheduled event time minus
\* the first scheduled event time.
C6_SumLastMinusFirst ==
  (Compiled /\ \A t \in DOMAIN updates : t >= 0) =>
    SumDurations(NumInstructions - 1) = LastScheduledTime - FirstScheduledTime

\* C6 (amended): the durations of all instructions but the last sum to the
\* last scheduled event time minus 0, the cycle at which address 0 starts.
C6_SumLastMinusZero ==
  Compiled =>
    /\ StartOf(0) = 0
    /\ SumDurations(NumInstructions - 1) = LastScheduledTime - 0

\* C6 witness: the first scheduled event is later than cycle 0
C6_Witness ==
  /\ Compiled
  /\ FirstScheduledTime > 0
  /\ LastScheduledTime > FirstScheduledTime
  /\ SumDurations(NumInstructions - 1) > LastScheduledTime - FirstScheduledTime

\* C7: the last instruction lasts 1 cycle when sequence_duration is unset and
\* sequence_duration - last_event_time when it is set; all durations then sum
\* to last_event_time + 1, respectively to sequence_duration.
C7_TrailingPad ==
  Compiled =>
    IF sequence_duration = None
      THEN /\ instructions[NumInstructions].duration = 1
           /\ SumDurations(NumInstructions) = LastScheduledTime + 1
      ELSE /\ instructions[NumInstructions].duration
                = sequence_duration[1] - LastScheduledTime
           /\ SumDurations(NumInstructions) = sequence_duration[1]

\* C7 witness: a set sequence_duration pads a last event later than cycle 0
\* by more than one cycle
C7_Witness ==
  /\ Compiled
  /\ sequence_duration # None
  /\ LastScheduledTime > 0
  /\ instructions[NumInstructions].duration > 1

\* C8: a compile() of a non-empty timeline whose sequence_duration leaves a
\* trailing pad below 1 raises and leaves no instructions.
C8_ShortSequenceRejected ==
  ( /\ last_call.op = "compile"
    /\ DOMAIN updates # {}
    /\ sequence_duration # None
    /\ sequence_duration[1] - LastScheduledTime < 1 )
  => /\ last_call.raised # ""
     /\ last_call.ret = None
     /\ instructions = << >>

\* C8 witness: compile() raised on a pad of exactly 0
C8_Witness ==
  /\ last_call.op = "compile"
  /\ DOMAIN updates # {}
  /\ sequence_duration # None
  /\ sequence_duration[1] - LastScheduledTime = 0
  /\ last_call.raised = "AssertionError"

\* C9: compile() of an empty timeline returns without error and leaves an
\* empty instruction list.
C9_EmptyTimeline ==
  (last_call.op = "compile" /\ DOMAIN updates = {})
  => /\ last_call.raised = ""
     /\ instructions = << >>

\* C9 witness: the empty timeline is compiled with a starting_state and a
\* sequence_duration that are not the defaults
C9_Witness ==
  /\ last_call.op = "compile"
  /\ DOMAIN updates = {}
  /\ sequence_duration # None
  /\ \E c \in Channels : starting_state[c]
  /\ instructions = << >>

\* what the claims say a pulse call a schedules on the timeline u, giving v:
\* repetition i has its leading edge (active level) at t + i*(d1+d2) and its
\* trailing edge (idle level) at t + i*(d1+d2) + d1, and nothing else changes
\* (a trailing edge scheduled at the cycle of its own leading edge is the
\* later write of the two)
PulseEdgesScheduled(a, u, v) ==
  LET period == a.d1 + a.d2
      active == a.first_segment_high
      Lead(i) == a.t + i * period
      Trail(i) == a.t + i * period + a.d1
      reps == 0 .. (a.N - 1)
      edge_times == {Lead(i) : i \in reps} \cup {Trail(i) : i \in reps}
      Old(time) == IF time \in DOMAIN u THEN u[time] ELSE NewEvent
  IN  /\ DOMAIN v = (DOMAIN u) \cup edge_times
      /\ \A time \in (DOMAIN u) \ edge_times : v[time] = u[time]
      /\ \A i \in reps :
           /\ a.ch \in DOMAIN v[Trail(i)].states
           /\ v[Trail(i)].states[a.ch] = ~active
           /\ a.d1 > 0 => /\ a.ch \in DOMAIN v[Lead(i)].states
                          /\ v[Lead(i)].states[a.ch] = active
      /\ \A time \in edge_times :
           /\ v[time].goto = Old(time).goto
           /\ DOMAIN v[time].states = (DOMAIN Old(time).states) \cup {a.ch}
           /\ \A c \in DOMAIN Old(time).states :
                c # a.ch => v[time].states[c] = Old(time).states[c]

\* the step is a pulse call with N >= 1 and a flags_mode of start, every or
\* end that returned
PulseReturned ==
  /\ npulses' = npulses + 1
  /\ last_call'.op = "pulse"
  /\ last_call'.raised = ""
  /\ last_call'.args.N >= 1
  /\ last_call'.args.flags_mode \in {"start", "every", "end"}

\* C10 (the claim as stated): a pulse call with N >= 1 in any of the three
\* flags modes schedules exactly the leading and trailing edges of its N
\* repetitions and returns (N-1)*(d1+d2) + d1.
C10_PulseEdges ==
  [][PulseReturned =>
       LET a == last_call'.args
       IN  /\ last_call'.ret = Some((a.N - 1) * (a.d1 + a.d2) + a.d1)
           /\ PulseEdgesScheduled(a, updates, updates')]_vars

\* what C11 says of the flags after a pulse call a made on the timeline u,
\* giving v: the event at a designated edge time (start: leading edge of
\* repetition 0; every: leading edge of each repetition; end: trailing edge of
\* the last repetition) has the supplied flags written over the flags it had,
\* and every other event has the flags it had (none, if the call created it)
PulseFlagsPlaced(a, u, v) ==
  LET period == a.d1 + a.d2
      reps == 0 .. (a.N - 1)
      designated ==
        IF a.flags_mode = "start" THEN {a.t}
        ELSE IF a.flags_mode = "every" THEN {a.t + i * period : i \in reps}
        ELSE {a.t + (a.N - 1) * period + a.d1}
      OldFlags(time) == IF time \in DOMAIN u THEN u[time].flags ELSE EmptyDict
  IN  \A time \in DOMAIN v :
        v[time].flags = IF time \in designated
                          THEN DictUpdate(OldFlags(time), FlagsNotNone(a.flags))
                          ELSE OldFlags(time)

\* C11: in a pulse call that supplies flags, flags_mode selects exactly the
\* edges that receive them; every other edge the call schedules receives none.
C11_FlagsModeSelectsEdges ==
  [][(PulseReturned /\ last_call'.args.flags # NoFlags)
       => PulseFlagsPlaced(last_call'.args, updates, updates')]_vars

\* C11 witness: a two-repetition pulse in mode 'end' with flags, on an empty
\* timeline: only the event of the last trailing edge carries flags
C11_Witness ==
  /\ last_call.op = "pulse"
  /\ last_call.raised = ""
  /\ last_call.args.flags = Notify
  /\ last_call.args.flags_mode = "end"
  /\ last_call.args.N = 2
  /\ last_call.args.d1 = 1
  /\ ncalls = 1
  /\ LET a == last_call.args
         last_trailing == a.t + (a.d1 + a.d2) + a.d1
     IN  /\ last_trailing \in DOMAIN updates
         /\ updates[last_trailing].flags = FlagsNotNone(Notify)
         /\ \A time \in DOMAIN updates :
              time # last_trailing => updates[time].flags = EmptyDict

\* the step is a pulse call
PulseCalled ==
  /\ npulses' = npulses + 1
  /\ last_call'.op = "pulse"

\* C12: a pulse call with N < 1 schedules nothing and returns 0; one with
\* N > 1 and duration_second <= 0 raises and schedules nothing.
C12_PulseRejections ==
  [][PulseCalled =>
       LET a == last_call'.args
       IN  /\ a.N < 1 => /\ updates' = updates
                         /\ last_call'.ret = Some(0)
                         /\ last_call'.raised = ""
           /\ (a.N > 1 /\ a.d2 <= 0) => /\ updates' = updates
                                        /\ last_call'.ret = None
                                        /\ last_call'.raised # ""]_vars

\* C12 witness: a repeating pulse with a zero-length idle phase was rejected
\* on a timeline that already holds an event
C12_Witness ==
  /\ last_call.op = "pulse"
  /\ last_call.args.N > 1
  /\ last_call.args.d2 = 0
  /\ last_call.args.flags_mode \in {"start", "every", "end"}
  /\ last_call.raised = "ValueError"
  /\ DOMAIN updates # {}

\* C13 (the claim as stated): a pulse call whose flags_mode is not one of
\* start, every, end raises, for every N and every duration.
C13_BadFlagsModeRaises ==
  (last_call.op = "pulse" /\ last_call.args.flags_mode \notin {"start", "every", "end"})
    => last_call.raised # ""

\* a dict equals the dict old with the entries of named written over it,
\* key by key: a named key has the named value, any other key is present
\* exactly when it was and has the value it had
MergedKeyByKey(new, old, named, Keys) ==
  \A k \in Keys :
    IF k \in DOMAIN named
      THEN k \in DOMAIN new /\ new[k] = named[k]
      ELSE /\ (k \in DOMAIN new) <=> (k \in DOMAIN old)
           /\ k \in DOMAIN old => new[k] = old[k]

OldEvent(time) == IF time \in DOMAIN updates THEN updates[time] ELSE NewEvent

\* what C14 says of an add_update (or Channel.high/low) call a
UpdateMerged(a) ==
  /\ DOMAIN updates' = (DOMAIN updates) \cup {a.t}
  /\ \A time \in (DOMAIN updates) \ {a.t} : updates'[time] = updates[time]
  /\ updates'[a.t].goto = OldEvent(a.t).goto
  /\ DOMAIN updates'[a.t].states \subseteq Channels
  /\ MergedKeyByKey(updates'[a.t].states, OldEvent(a.t).states, a.state_dict, Channels)
  /\ DOMAIN updates'[a.t].flags \subseteq FlagNames
  /\ MergedKeyByKey(updates'[a.t].flags, OldEvent(a.t).flags,
                    FlagsNotNone(a.flags), FlagNames)

\* what C14 says of an add_goto call a
GotoMerged(a) ==
  /\ DOMAIN updates' = (DOMAIN updates) \cup {a.t_from - 1, a.t_to}
  /\ \A time \in (DOMAIN updates) \ {a.t_from - 1} : updates'[time] = updates[time]
  /\ updates'[a.t_from - 1].goto = GotoDict(a.t_to, a.goto_counter)
  /\ updates'[a.t_from - 1].states = OldEvent(a.t_from - 1).states
  /\ updates'[a.t_from - 1].flags = OldEvent(a.t_from - 1).flags
  /\ a.t_to # a.t_from - 1 => updates'[a.t_to] = OldEvent(a.t_to)

\* C14: an add_update or add_goto call merges into the one event of its time,
\* field by field: the overrides, flags and goto it names take the new value,
\* everything else on the timeline keeps the value it had.
C14_SameTimeEditsMerge ==
  [][(ncalls' = ncalls + 1) =>
       /\ last_call'.op \in {"add_update", "high", "low"} => UpdateMerged(last_call'.args)
       /\ last_call'.op = "add_goto" => GotoMerged(last_call'.args)]_vars

\* C14 witness: an add_update was merged into the event that an add_goto had
\* created, which now holds the goto and the override
C14_Witness ==
  /\ last_call.op = "add_update"
  /\ last_call.args.state_dict # EmptyDict
  /\ updates[last_call.args.t].goto # EmptyDict
  /\ \A c \in DOMAIN last_call.args.state_dict :
       updates[last_call.args.t].states[c] = last_call.args.state_dict[c]

\* C15: channel(n) returns the handle cached for n, the same one on every
\* call and for as long as the Compiler lives; a starting_state argument sets
\* starting_state[n], and without one starting_state is left as it was.
C15_ChannelMemoized ==
  [][/\ \A n \in DOMAIN channels : n \in DOMAIN channels' /\ channels'[n] = channels[n]
     /\ last_call'.op = "channel" =>
          LET a == last_call'.args
          IN  /\ a.channel_number \in DOMAIN channels'
              /\ last_call'.ret = Some(channels'[a.channel_number])
              /\ IF a.starting_state # None
                   THEN starting_state' =
                          [starting_state EXCEPT ![a.channel_number] = a.starting_state[1]]
                   ELSE starting_state' = starting_state]_vars

\* C15 witness: channel(n) was called again after the handle of another
\* channel had been created, and returned the older handle of n; the call
\* carried starting_state = True
C15_Witness ==
  /\ last_call.op = "channel"
  /\ Cardinality(DOMAIN channels) = 2
  /\ last_call.ret = Some(1)
  /\ last_call.args.starting_state = Some(TRUE)
  /\ starting_state[last_call.args.channel_number]

\* C16: compile() leaves the timeline, starting_state and sequence_duration
\* as they were; a compile() that directly follows a compile() gives the same
\* instructions, final_address and outcome; and the content of a Program the
\* caller keeps is changed by no later call.
C16_CompilePure ==
  [][/\ last_call'.op = "compile" =>
          /\ updates' = updates
          /\ starting_state' = starting_state
          /\ sequence_duration' = sequence_duration
     /\ (last_call.op = "compile" /\ last_call'.op = "compile") =>
          /\ instructions' = instructions
          /\ final_address' = final_address
          /\ last_call'.ret = last_call.ret
          /\ last_call'.raised = last_call.raised
     /\ held # None => (held' # None /\ held'[1].content = held[1].content)]_vars

\* C16 witness: the caller keeps a compiled Program of two instructions, and a
\* later compile() of a changed timeline produced a different one
C16_Witness ==
  /\ held # None
  /\ Len(held[1].content) = 2
  /\ last_call.op = "compile"
  /\ last_call.ret # None
  /\ Len(instructions) = 3
  /\ ~held[1].same

\* the instructions carried by a sequence of instruction commands
RECURSIVE Payload(_)
Payload(commands) ==
  IF commands = << >> THEN << >>
  ELSE Head(commands).payload \o Payload(Tail(commands))

\* C17: the commands one upload_instructions call puts on the wire hold at
\* most one device-options command; it is there exactly when the call did not
\* fail, it is the last command, the commands before it carry the whole
\* instruction list, and its final_address is the Compiler's, which after a
\* compile() that returned is the index of the last instruction.
C17_UploadOrder ==
  [][last_call'.op = "upload_instructions" =>
       LET written == SubSeq(wire', Len(wire) + 1, Len(wire'))
           options == {i \in 1 .. Len(written) : written[i].kind = "device_options"}
       IN  /\ Cardinality(options) <= 1
           /\ (options # {}) <=> (last_call'.raised = "")
           /\ \A i \in options :
                /\ i = Len(written)
                /\ Payload(SubSeq(written, 1, i - 1)) = instructions
                /\ written[i].final_address = final_address
                /\ last_call'.args.compiled =>
                     written[i].final_address = Some(Len(instructions) - 1)]_vars

\* C17 witness: a Program of two instructions was compiled and uploaded one
\* instruction at a time, and the device options followed with final_address 1
C17_Witness ==
  /\ last_call.op = "upload_instructions"
  /\ last_call.raised = ""
  /\ last_call.args.compiled
  /\ Len(wire) = 3
  /\ wire[1].kind = "instructions"
  /\ wire[2].kind = "instructions"
  /\ wire[3].kind = "device_options"
  /\ wire[3].final_address = Some(1)

\* the readers that have not left SerialWorker.run
LiveReaders == DOMAIN readers

\* C18: connect() on an open channel returns success and opens no port,
\* starts no reader and emits no connected signal; and at no time is there
\* more than one background reader.
C18_ConnectIdempotent ==
  [][/\ (last_call'.op = "connect" /\ is_open) =>
          /\ last_call'.ret = Some(TRUE)
          /\ UNCHANGED << ser_is_open, ser_port, worker, readers, nreaders, signals >>
     /\ Cardinality(LiveReaders') <= 1]_vars

\* the names of the ports in a list of validated devices
Comport(devices) == {devices[i].comport : i \in 1 .. Len(devices)}

\* C19: disconnect() on an open channel tells the reader to stop, closes the
\* port and emits disconnected once; on a channel that is not open it changes
\* nothing and emits nothing.
C19_DisconnectOnce ==
  [][last_call'.op = "disconnect" =>
       IF is_open
         THEN /\ ~ser_is_open'
              /\ worker' = None
              /\ \A id \in LiveReaders' : ~readers'[id]
              /\ signals' = Append(signals, "disconnected")
         ELSE UNCHANGED << ser_is_open, ser_port, worker, readers, nreaders, signals,
                           wire, serial_number_save >>]_vars

\* C20: get_connected_devices() returns whatever happens while the ports are
\* probed, and every port with the device's vendor and product id is in
\* exactly one of the two lists: in the validated one exactly when an echo
\* with the probe byte came back.
C20_DiscoveryNeverRaises ==
  last_call.op = "get_connected_devices" =>
    /\ last_call.raised = ""
    /\ last_call.ret # None
    /\ LET outcomes == last_call.args
           validated == Comport(last_call.ret[1].validated_devices)
           unvalidated == {last_call.ret[1].unvalidated_devices[i] :
                             i \in 1 .. Len(last_call.ret[1].unvalidated_devices)}
       IN  \A d \in ValidDevices :
             /\ (d \in validated) # (d \in unvalidated)
             /\ (d \in validated) <=>
                  (outcomes[d].event = "echo" /\ outcomes[d].echoed_byte = CheckByte)

\* the signals run emits for a complete frame
Dispatched(id, payload) ==
  << WorkerEvent("messageReceived", id, payload),
     WorkerEvent(CategorySignal(msgin_decodeinfo[id].message_type)[1], id, payload) >>

\* C21: a read of an id byte that no message has takes that one byte from the
\* stream, emits one bytesDropped for it and goes back to the id read without
\* a payload read; a frame read in full after that is dispatched with its id
\* and exactly the bytes that followed its id.
C21_UnknownIdDropped ==
  [][/\ (run_pc = "read_id" /\ Len(inbuf') < Len(inbuf)
           /\ Head(inbuf) \notin DOMAIN msgin_decodeinfo) =>
          /\ inbuf' = Tail(inbuf)
          /\ worker_signals' =
               Append(worker_signals, WorkerEvent("bytesDropped", Head(inbuf), << >>))
          /\ run_pc' = "while"
          /\ msg_id' = None
     /\ (/\ run_pc = "read_payload" /\ run_pc' = "while"
         /\ worker_signals # << >>
         /\ worker_signals[Len(worker_signals)].signal = "bytesDropped"
         /\ worker_signals[Len(worker_signals)].msg_id \notin DOMAIN msgin_decodeinfo
         /\ Len(inbuf) - Len(inbuf') = Remaining(msg_id[1])) =>
          worker_signals' =
            worker_signals \o Dispatched(msg_id[1], SubSeq(inbuf, 1, Remaining(msg_id[1])))]_vars

\* C21 witness: the stream 0, 2, 1 was read as one dropped byte and the
\* print message with payload 1
C21_Witness ==
  /\ nworkers = 1
  /\ inbuf = << >>
  /\ worker_signals = << WorkerEvent("bytesDropped", 0, << >>) >> \o Dispatched(2, << 1 >>)

RECURSIVE CountSignal(_, _)
CountSignal(evs, name) ==
  IF evs = << >> THEN 0
  ELSE (IF Head(evs).signal = name THEN 1 ELSE 0) + CountSignal(Tail(evs), name)

\* the signals a step has added
NewSignals == SubSeq(worker_signals', Len(worker_signals) + 1, Len(worker_signals'))

\* C23: a read that returns nothing is followed by the loop test, which goes
\* to the next read while _running holds; a read error emits one
\* errorOccurred and leaves the loop; whatever the way out, finished is then
\* emitted once, and a SerialWorker that has emitted it emits nothing more.
C23_ReaderTerminates ==
  [][/\ (run_pc = "read_id" /\ run_pc' # "read_id" /\ inbuf' = inbuf
           /\ worker_signals' = worker_signals) => run_pc' = "while"
     /\ (run_pc = "while" /\ run_pc' # "while" /\ running) => run_pc' = "read_id"
     /\ CountSignal(NewSignals, "errorOccurred") > 0 =>
          /\ NewSignals = << WorkerEvent("errorOccurred", 0, << >>) >>
          /\ run_pc \in {"read_id", "read_payload"}
          /\ run_pc' = "finally"
     /\ (run_pc # "finally" /\ run_pc' = "finally") =>
          \/ run_pc = "while" /\ ~running /\ NewSignals = << >>
          \/ NewSignals = << WorkerEvent("errorOccurred", 0, << >>) >>
     /\ (run_pc = "finally" /\ run_pc' # "finally") =>
          /\ NewSignals = << WorkerEvent("finished", 0, << >>) >>
          /\ run_pc' = "done"
     /\ CountSignal(NewSignals, "finished") > 0 => run_pc = "finally"
     /\ (run_pc = "done" /\ nworkers' = nworkers) =>
          (worker_signals' = worker_signals /\ run_pc' = "done")
     /\ CountSignal(worker_signals', "finished")
          = (IF run_pc' = "done" THEN nworkers' ELSE nworkers' - 1)]_vars

\* C23 witness: a payload read raised; the error was reported and finished
\* followed it
C23_Witness ==
  /\ run_pc = "done"
  /\ nworkers = 1
  /\ msg_id # None
  /\ running
  /\ worker_signals = << WorkerEvent("errorOccurred", 0, << >>),
                        WorkerEvent("finished", 0, << >>) >>

\* C24: a frame whose id was read is carried through after a stop request:
\* its payload read ends in a dispatch, a drop or an error; a payload read
\* that comes back short gives up the frame, and no run starts inside a
\* frame; a loop test that finds _running False leads to finished, after
\* which the SerialWorker reads no byte.
C24_StopBoundary ==
  [][/\ (run_pc = "read_payload" /\ run_pc' # "read_payload" /\ ~running) =>
          \/ /\ Len(inbuf) >= Remaining(msg_id[1])
             /\ NewSignals = Dispatched(msg_id[1], SubSeq(inbuf, 1, Remaining(msg_id[1])))
          \/ NewSignals = << WorkerEvent("bytesDropped", msg_id[1], << >>) >>
          \/ NewSignals = << WorkerEvent("errorOccurred", 0, << >>) >>
     /\ (run_pc = "read_payload" /\ run_pc' = "while"
           /\ Len(inbuf) - Len(inbuf') < Remaining(msg_id[1])) =>
          /\ msg_id' = None
          /\ CountSignal(NewSignals, "messageReceived") = 0
     /\ run_pc' = "read_payload" =>
          (nworkers' = nworkers /\ run_pc \in {"read_id", "read_payload"})
     /\ nworkers' # nworkers => (run_pc' = "while" /\ msg_id' = None)
     /\ (run_pc = "while" /\ run_pc' # "while" /\ ~running) => run_pc' = "finally"
     /\ (run_pc \in {"finally", "done"} /\ nworkers' = nworkers) =>
          /\ Len(inbuf') >= Len(inbuf)
          /\ run_pc' \in {"finally", "done"}
          /\ CountSignal(NewSignals, "messageReceived") = 0
          /\ CountSignal(NewSignals, "bytesDropped") = 0]_vars

\* C24 witness: stop() cancelled the payload read of an echo frame; the
\* frame was dropped with bytes of it still unread, and the run ended
C24_Witness ==
  /\ run_pc = "done"
  /\ ~running
  /\ nworkers = 1
  /\ inbuf # << >>
  /\ worker_signals = << WorkerEvent("bytesDropped", 1, << >>),
                        WorkerEvent("finished", 0, << >>) >>

\* the callers inside ser.write
Writing == {w \in Writers : wpc[w] = "write"}

\* C25: at most one caller is inside ser.write, and it holds the lock; a byte
\* of a command follows the byte before it on the wire with nothing in
\* between; no step of the SerialWorker changes the lock, and its steps are
\* possible while a caller holds the lock.
C25_WritesExclusive ==
  [][/\ Cardinality(Writing') <= 1
     /\ \A w \in Writing' : write_lock' = Some(w)
     /\ Len(wire') > Len(wire) =>
          LET b == wire'[Len(wire')]
          IN  (b.kind = "byte" /\ b.index > 1) =>
                /\ wire # << >>
                /\ wire[Len(wire)] = WrittenByte(b.writer, b.command, b.index - 1)
     /\ run_pc' # run_pc => write_lock' = write_lock
     /\ write_lock # None =>
          /\ run_pc = "while" => ENABLED run_while
          /\ run_pc = "read_id" => ENABLED run_read_id
          /\ run_pc = "finally" => ENABLED run_finally]_vars

\* C25 witness: one caller has written the first byte of its command and
\* holds the lock, the other waits for it, and the SerialWorker is reading
C25_Witness ==
  /\ write_lock = Some("w1")
  /\ wsent["w1"] = 1
  /\ wpc["w2"] = "acquire"
  /\ wire # << >>
  /\ wire[Len(wire)].kind = "byte"
  /\ run_pc = "read_id"

\* C26: a write_command call made while the port is not open raises
\* PortNotOpenError and puts nothing on the wire, and ser.write is never
\* entered or continued on a port that is not open.
C26_NoWriteWhenClosed ==
  [][\A w \in Writers :
       /\ (wpc[w] = "idle" /\ wcommand'[w] # wcommand[w] /\ ~is_open) =>
            /\ last_call' = Call("write_command", [writer |-> w], None, "PortNotOpenError")
            /\ wire' = wire
            /\ wpc'[w] = "idle"
       /\ (wpc[w] = "write" /\ (wpc'[w] # "write" \/ wsent'[w] # wsent[w])) => is_open]_vars

\* C27: a connect() that returns failure has opened no port, started no
\* reader and emitted nothing; and a connect(serial_number = s, ...) on a
\* closed channel opens a port only if it is the port of a device with the
\* serial number s.
C27_ConnectFailsWithoutMatch ==
  [][(last_call'.op = "connect" /\ ~is_open) =>
       /\ last_call'.ret = Some(FALSE) =>
            UNCHANGED << ser_is_open, ser_port, worker, readers, nreaders, signals >>
       /\ (last_call'.args.serial_number # None /\ ser_is_open') =>
            \E i \in 1 .. Len(ValidPorts) :
              /\ ValidPorts[i].serial_number = last_call'.args.serial_number[1]
              /\ ser_port' = Some(ValidPorts[i].device)]_vars

\* the device-options commands among the commands a step has written
NewOptions ==
  {i \in Len(wire) + 1 .. Len(wire') : wire'[i].kind = "device_options"}

\* C28: the command of write_device_options carries each supplied keyword
\* argument and None for every other field; the device-options command of
\* an upload carries the Compiler's final_address and None for every other
\* field.
C28_UnsuppliedOptionsUnset ==
  [][/\ last_call'.op = "write_device_options" =>
          \A i \in NewOptions : \A f \in OptionFields :
            wire'[i][f] = (IF f \in DOMAIN last_call'.args THEN last_call'.args[f] ELSE None)
     /\ last_call'.op = "upload_instructions" =>
          \A i \in NewOptions :
            /\ wire'[i].final_address = final_address
            /\ \A f \in OptionFields \ {"final_address"} : wire'[i][f] = None]_vars

\* C28 witness: an upload wrote its device options with a final_address, and
\* a write_device_options(run_mode=0) after it wrote run_mode alone
C28_Witness ==
  /\ last_call.op = "write_device_options"
  /\ last_call.raised = ""
  /\ Len(wire) >= 2
  /\ wire[Len(wire)].kind = "device_options"
  /\ wire[Len(wire)].run_mode = Some(0)
  /\ wire[Len(wire)].final_address = None
  /\ wire[Len(wire) - 1].kind = "device_options"
  /\ wire[Len(wire) - 1].final_address # None
  /\ wire[Len(wire) - 1].run_mode = None

\* the events at addresses 0..k that override channel c
Overriders(k, c) ==
  {a \in 0 .. k : c \in DOMAIN sorted_updates[a + 1][2].states}

\* the values that starting_state overridden in ascending time order by the
\* events at addresses 0..k can leave on channel c: the override of a latest
\* event that has one, and the starting value when no event has one
OverriddenValues(k, c) ==
  IF Overriders(k, c) = {} THEN {starting_state[c]}
  ELSE {sorted_updates[a + 1][2].states[c] :
          a \in {b \in Overriders(k, c) :
                   \A b2 \in Overriders(k, c) : StartOf(b2) <= StartOf(b)}}

\* C30 (the claim as stated): the state of the instruction at address k is
\* starting_state overridden in ascending time order by the overrides of the
\* events at addresses 0..k, and an instruction whose event has no goto has
\* goto target 0 and goto counter 0.
C30_RunningStateAndDefaultGoto ==
  Compiled =>
    \A k \in 0 .. (NumInstructions - 1) :
      /\ \A c \in Channels : instructions[k + 1].state[c] \in OverriddenValues(k, c)
      /\ sorted_updates[k + 1][2].goto = EmptyDict
           => /\ instructions[k + 1].goto_address = 0
              /\ instructions[k + 1].goto_counter = 0

\* C29: the messages decoded from the bytes the encoder returned are the
\* messages given to the encoder, for every category and every sampled value
\* of every field, supplied or left out.
C29_RoundTrip ==
  codec_out # None => codec_out[1] = codec_x

\* C29 witness: a device-options message with final_address 0 supplied and
\* run_mode left out came back from the decoder
C29_Witness ==
  /\ codec_out # None
  /\ Len(codec_out[1]) = 1
  /\ codec_x[1].category = "device_options"
  /\ codec_x[1].fields.final_address = Some(0)
  /\ codec_x[1].fields.run_mode = None
  /\ codec_out[1][1].fields.final_address = Some(0)
  /\ codec_out[1][1].fields.run_mode = None

\* C31 (the claim as stated): every event time of the timeline is a
\* non-negative cycle count, and the event list a compile() that returned has
\* walked, synthetic time-0 event and sentinel included, has strictly
\* increasing times.
C31_TimesNonNegativeIncreasing ==
  /\ \A t \in DOMAIN updates : t >= 0
  /\ Compiled =>
       \A i, j \in DOMAIN sorted_updates :
         i < j => sorted_updates[i][1] < sorted_updates[j][1]

\* C32: compile() never fails on the lookup of a goto target, and every
\* instruction of a compiled Program has a goto target address in
\* 0..final_address.
C32_GotoTargetsAddressed ==
  /\ last_call.op = "compile" => last_call.raised # "KeyError"
  /\ Compiled =>
       /\ final_address # None
       /\ \A i \in DOMAIN instructions :
            instructions[i].goto_address \in 0 .. final_address[1]

\* C32 witness: a compiled goto whose target time holds nothing but the
\* placeholder event of add_goto, at an address after 0
C32_Witness ==
  /\ Compiled
  /\ \E t_from \in DOMAIN gotos :
       LET t_to == gotos[t_from][1]
       IN  /\ t_to >= 1
           /\ updates[t_to] = NewEvent
           /\ \E i \in DOMAIN instructions :
                /\ StartOf(i - 1) = t_from - 1
                /\ instructions[i].goto_address >= 1
                /\ StartOf(instructions[i].goto_address) = t_to

\* C33 (the claim as stated): after every compile() call, whether it
\* returned or raised, final_address is the index of the last stored
\* instruction, and designates no instruction when none is stored.
C33_StoredProgramConsistent ==
  last_call.op = "compile" =>
    IF instructions = << >>
      THEN final_address = None
      ELSE final_address = Some(Len(instructions) - 1)

\* C34: a pulse call that raises leaves the timeline, starting_state and
\* sequence_duration as they were before the call.
C34_RejectedPulseSchedulesNothing ==
  [][(PulseCalled /\ last_call'.raised # "") =>
       /\ updates' = updates
       /\ starting_state' = starting_state
       /\ sequence_duration' = sequence_duration]_vars

\* C34 witness: a pulse with an unrecognized flags_mode was rejected on a
\* timeline that already holds an event
C34_Witness ==
  /\ last_call.op = "pulse"
  /\ last_call.args.N >= 1
  /\ last_call.args.flags_mode \notin {"start", "every", "end"}
  /\ last_call.raised = "ValueError"
  /\ DOMAIN updates # {}

\* the add_update or add_goto call that the step makes
EditCalled ==
  /\ ncalls' = ncalls + 1
  /\ last_call'.op \in {"add_update", "add_goto"}

LastEdit ==
  IF last_call'.op = "add_update"
    THEN BuilderEdit("add_update", last_call'.args.t, 0, 0,
                     last_call'.args.state_dict, last_call'.args.flags)
    ELSE BuilderEdit("add_goto", last_call'.args.t_from, last_call'.args.t_to,
                     last_call'.args.goto_counter, EmptyDict, NoFlags)

\* C35: an add_update or add_goto call and any other such call that writes
\* an event at a different time give the same timeline, and so the same
\* compiled Program, in either order.
C35_OrderIndependent ==
  [][EditCalled =>
       \A e \in BuilderEdits :
         EditedTime(e) # EditedTime(LastEdit) =>
           LET this_first == ApplyEdit(updates', e)
               this_last == ApplyEdit(ApplyEdit(updates, e), LastEdit)
           IN  /\ this_first = this_last
               /\ Compile(this_first, starting_state, sequence_duration, final_address)
                    = Compile(this_last, starting_state, sequence_duration, final_address)]_vars

\* C35 witness: an add_goto was called whose target time already holds an
\* event with a channel override, scheduled by an earlier add_update
C35_Witness ==
  /\ last_call.op = "add_goto"
  /\ last_call.args.t_to # last_call.args.t_from - 1
  /\ last_call.args.t_to \in DOMAIN updates
  /\ updates[last_call.args.t_to].states # EmptyDict

\* C36 (the claim as stated): whenever the Device Channel reports the port
\* as open, exactly one background reader is inside run() on it.
C36_OpenPortHasOneReader ==
  is_open => Cardinality(LiveReaders) = 1

\* the readers that were told to stop and have not left run()
StoppedReaders == {id \in DOMAIN readers : ~readers[id]}

\* C37 (the claim as stated): a reader that disconnect() has stopped, and
\* whose disconnected notification has been emitted, delivers no further
\* event, also when it had not left run() when the wait for it expired.
C37_NoEventAfterDisconnected ==
  [][(last_call'.op = "run" /\ last_call'.args.reader \in StoppedReaders)
       => signals' = signals]_vars

\* C38 (the claim as stated): the recorded metadata describes the device of
\* the current connection: none is recorded while the channel is not open,
\* and a connect(port=p) that opens the port without discovery leaves none
\* of an earlier device.
C38_MetadataOfCurrentDevice ==
  [][/\ ~is_open' => serial_number_save' = None
     /\ (/\ ~is_open
         /\ is_open'
         /\ last_call'.op = "connect"
         /\ last_call'.args.serial_number = None
         /\ last_call'.args.port # None) => serial_number_save' = None]_vars

\* C39 (the claim as stated): once an upload_instructions call has written
\* its first command and until it has written its last, no byte of a command
\* of another write_command caller is put on the wire.
C39_UploadAtomic ==
  [][(uploading # None /\ uploading[1].written >= 1) =>
       \A i \in (Len(wire) + 1) .. Len(wire') : wire'[i].kind # "byte"]_vars

====
